---------------------------- MODULE Spec2Model ----------------------------
(***************************************************************************)
(* A model of the pocketbase-go client: the token store, the transport     *)
(* (doRequest / doMultipartRequest), the authentication operations, the   *)
(* record operations and the GetAllRecords traversal.                      *)
(***************************************************************************)
EXTENDS Integers, Sequences, FiniteSets, TLC

(***************************************************************************)
(* Bounds of the model.                                                    *)
(***************************************************************************)
\* The largest totalPages value the modelled server reports, and the largest
\* page number a caller asks for.
MaxPages == 3

\* The largest status an *APIError of the error-helper check carries.
MaxStatus == 599

\* The longest base URL handed to NewClient, in characters.
MaxBaseLen == 3

\* The longest list of options a caller passes in the option checks.
MaxOpts == 3

\* The goroutines that call the client concurrently.
Callers == {"a", "b"}
\* The callers that run every operation.  The other callers run the operations
\* that write the token, which is all one caller can see of another (of the
\* two authentications, the one AuthenticateAsSuperuser delegates to).
FullCallers == {"a"}

\* The numbers of items a page of a list response holds.
ItemCounts == {0, 2}

\* Token strings; "" is Go's zero string.
Tokens == {"", "t1", "t2"}

(***************************************************************************)
(* JSON values as encoding/json sees them.  A field of a JSON object is    *)
(* absent, null, or a value of some JSON type: t is the type, n the value *)
(* of a number, s the value of a string (or the name of an object's        *)
(* content), q the elements of an array.                                   *)
(***************************************************************************)
Absent == [t |-> "absent", n |-> 0, s |-> "", q |-> <<>>]
Null == [t |-> "null", n |-> 0, s |-> "", q |-> <<>>]
Num(n) == [t |-> "num", n |-> n, s |-> "", q |-> <<>>]
Str(s) == [t |-> "str", n |-> 0, s |-> s, q |-> <<>>]
Obj(s) == [t |-> "obj", n |-> 0, s |-> s, q |-> <<>>]
Arr(q) == [t |-> "arr", n |-> 0, s |-> "", q |-> q]

\* The object keys the client's wire types name.
FieldNames == {"status", "message", "data", "token", "record", "totalPages", "items"}

NoFields == [k \in FieldNames |-> Absent]

\* A response body: syn says whether the bytes are one well-formed JSON value
\* ("bad" covers an empty body and a syntax error), top is the type of that
\* value, obj names the whole object's content, f holds the fields of the
\* object the wire types read.
BadBody == [syn |-> "bad", top |-> "none", obj |-> "nil", f |-> NoFields]
NullBody == [syn |-> "ok", top |-> "null", obj |-> "nil", f |-> NoFields]
ScalarBody == [syn |-> "ok", top |-> "str", obj |-> "nil", f |-> NoFields]
ObjBody(name, fields) == [syn |-> "ok", top |-> "obj", obj |-> name, f |-> fields]

\* Go's nil map / nil Record.
NilRec == "nil"

(***************************************************************************)
(* encoding/json decoding one field into a typed struct field: an absent  *)
(* or null field leaves the zero value, a value of the wanted type is      *)
(* stored, any other type is an UnmarshalTypeError.                        *)
(***************************************************************************)
FieldOk(fld, want) == fld.t \in {"absent", "null", want}

IntField(fld) == IF fld.t = "num" THEN fld.n ELSE 0

StrField(fld) == IF fld.t = "str" THEN fld.s ELSE ""

MapField(fld) == IF fld.t = "obj" THEN fld.s ELSE NilRec

SliceField(fld) == IF fld.t = "arr" THEN fld.q ELSE <<>>

\* Decoding a body into a struct: the bytes must be JSON, the value an object
\* or null (null leaves the struct untouched).
StructOk(body) == body.syn = "ok" /\ body.top \in {"obj", "null"}

\* json.NewDecoder(resp.Body).Decode(&apiErr), apiErr an apiErrorResp.
DecodeApiErrorResp(body) ==
    [ok |-> /\ StructOk(body)
            /\ FieldOk(body.f["status"], "num")
            /\ FieldOk(body.f["message"], "str")
            /\ FieldOk(body.f["data"], "obj"),
     Status |-> IntField(body.f["status"]),
     Message |-> StrField(body.f["message"]),
     Data |-> MapField(body.f["data"])]

\* Decode(&resp), resp an authResp or an impersonateResp (the same shape).
DecodeAuthResp(body) ==
    [ok |-> /\ StructOk(body)
            /\ FieldOk(body.f["token"], "str")
            /\ FieldOk(body.f["record"], "obj"),
     Token |-> StrField(body.f["token"]),
     Record |-> MapField(body.f["record"])]

\* Decode(&resp), resp a listResp.
DecodeListResp(body) ==
    [ok |-> /\ StructOk(body)
            /\ FieldOk(body.f["totalPages"], "num")
            /\ FieldOk(body.f["items"], "arr"),
     TotalPages |-> IntField(body.f["totalPages"]),
     Items |-> SliceField(body.f["items"])]

\* Decode(&record), record a Record (map[string]any): any object decodes, null
\* leaves the nil map.
DecodeRecord(body) ==
    [ok |-> StructOk(body),
     Record |-> IF body.syn = "ok" /\ body.top = "obj" THEN body.obj ELSE NilRec]

(***************************************************************************)
(* What doRequest hands back: the error (none, an *APIError, or a local    *)
(* error wrapped with fmt.Errorf at some stage) and the decoded value.     *)
(***************************************************************************)
NoErr ==
    [kind |-> "none", stage |-> "", Status |-> 0, Message |-> "", Data |-> NilRec,
     cause |-> ""]

APIError(status, message, data) ==
    [kind |-> "api", stage |-> "", Status |-> status, Message |-> message, Data |-> data,
     cause |-> ""]

LocalErr(stage) ==
    [kind |-> "local", stage |-> stage, Status |-> 0, Message |-> "", Data |-> NilRec,
     cause |-> ""]

\* fmt.Errorf("...: %w", err): a local error that wraps err, so that errors.Is
\* finds cause in it ("" when err is no context error).
WrappedErr(stage, cause) == [LocalErr(stage) EXCEPT !.cause = cause]

\* The zero value of every destination.
NoVal == [Token |-> "", Record |-> NilRec, Items |-> <<>>, TotalPages |-> 0]

\* The destinations the operations pass as out.
Targets == {"authResp", "impersonateResp", "listResp", "Record", "nil"}

\* json.NewDecoder(resp.Body).Decode(out), by the type of out.
DecodeOut(target, body) ==
    CASE target \in {"authResp", "impersonateResp"} ->
            LET d == DecodeAuthResp(body)
            IN [ok |-> d.ok, val |-> [NoVal EXCEPT !.Token = d.Token, !.Record = d.Record]]
      [] target = "listResp" ->
            LET d == DecodeListResp(body)
            IN [ok |-> d.ok,
                val |-> [NoVal EXCEPT !.Items = d.Items, !.TotalPages = d.TotalPages]]
      [] target = "Record" ->
            LET d == DecodeRecord(body)
            IN [ok |-> d.ok, val |-> [NoVal EXCEPT !.Record = d.Record]]
      [] OTHER -> [ok |-> TRUE, val |-> NoVal]

\* The HTTP status codes the modelled server answers with.
StatusCodes == {200, 204, 400, 401, 403, 404, 500}

\* resp.Status: the status line's text for a code.
StatusText(code) ==
    CASE code = 200 -> "200 OK"
      [] code = 204 -> "204 No Content"
      [] code = 400 -> "400 Bad Request"
      [] code = 401 -> "401 Unauthorized"
      [] code = 403 -> "403 Forbidden"
      [] code = 404 -> "404 Not Found"
      [] OTHER -> "500 Internal Server Error"

\* doRequestResponse that returns the decode error of an error body it cannot
\* decode.
doRequestResponseRawDecodeError(code, body, target) ==
    IF code < 200 \/ code >= 300
    THEN LET apiErr == DecodeApiErrorResp(body)
         IN IF ~apiErr.ok
            THEN [err |-> LocalErr("decode"), val |-> NoVal]
            ELSE [err |-> APIError(apiErr.Status, apiErr.Message, apiErr.Data),
                  val |-> NoVal]
    ELSE IF target # "nil"
         THEN LET d == DecodeOut(target, body)
              IN IF ~d.ok
                 THEN [err |-> LocalErr("decode"), val |-> NoVal]
                 ELSE [err |-> NoErr, val |-> d.val]
         ELSE [err |-> NoErr, val |-> NoVal]

\* doRequestResponse that reports a 2xx body it cannot decode as an API error.
doRequestResponseDecodeAPIError(code, body, target) ==
    IF code < 200 \/ code >= 300
    THEN LET apiErr == DecodeApiErrorResp(body)
         IN IF ~apiErr.ok
            THEN [err |-> APIError(code, StatusText(code), NilRec), val |-> NoVal]
            ELSE [err |-> APIError(apiErr.Status, apiErr.Message, apiErr.Data),
                  val |-> NoVal]
    ELSE LET d == DecodeOut(target, body)
         IN IF ~d.ok
            THEN [err |-> APIError(code, StatusText(code), NilRec), val |-> NoVal]
            ELSE [err |-> NoErr, val |-> d.val]

\* doRequestResponse whose API error always has the status of the status line.
doRequestResponseStatusLine(code, body, target) ==
    IF code < 200 \/ code >= 300
    THEN LET apiErr == DecodeApiErrorResp(body)
         IN IF ~apiErr.ok
            THEN [err |-> APIError(code, StatusText(code), NilRec), val |-> NoVal]
            ELSE [err |-> APIError(code, apiErr.Message, apiErr.Data), val |-> NoVal]
    ELSE IF target # "nil"
         THEN LET d == DecodeOut(target, body)
              IN IF ~d.ok
                 THEN [err |-> LocalErr("decode"), val |-> NoVal]
                 ELSE [err |-> NoErr, val |-> d.val]
         ELSE [err |-> NoErr, val |-> NoVal]

\* doRequest from "Handle non-2xx responses" to its end: the outcome for a
\* response with this status code and body, decoded into target.
doRequestResponse(code, body, target) ==
    IF code < 200 \/ code >= 300
    THEN LET apiErr == DecodeApiErrorResp(body)
         IN IF ~apiErr.ok
            THEN [err |-> APIError(code, StatusText(code), NilRec), val |-> NoVal]
            ELSE [err |-> APIError(apiErr.Status, apiErr.Message, apiErr.Data),
                  val |-> NoVal]
    ELSE IF target # "nil"
         THEN LET d == DecodeOut(target, body)
              IN IF ~d.ok
                 THEN [err |-> LocalErr("decode"), val |-> NoVal]
                 ELSE [err |-> NoErr, val |-> d.val]
         ELSE [err |-> NoErr, val |-> NoVal]

\* doMultipartRequestResponse whose generic API error has no message.
doMultipartRequestResponseNoMessage(code, body, target) ==
    IF code < 200 \/ code >= 300
    THEN LET apiErr == DecodeApiErrorResp(body)
         IN IF ~apiErr.ok
            THEN [err |-> APIError(code, "", NilRec), val |-> NoVal]
            ELSE [err |-> APIError(apiErr.Status, apiErr.Message, apiErr.Data),
                  val |-> NoVal]
    ELSE IF target # "nil"
         THEN LET d == DecodeOut(target, body)
              IN IF ~d.ok
                 THEN [err |-> LocalErr("decode"), val |-> NoVal]
                 ELSE [err |-> NoErr, val |-> d.val]
         ELSE [err |-> NoErr, val |-> NoVal]

\* doMultipartRequest from "Handle non-2xx responses" to its end.
doMultipartRequestResponse(code, body, target) ==
    IF code < 200 \/ code >= 300
    THEN LET apiErr == DecodeApiErrorResp(body)
         IN IF ~apiErr.ok
            THEN [err |-> APIError(code, StatusText(code), NilRec), val |-> NoVal]
            ELSE [err |-> APIError(apiErr.Status, apiErr.Message, apiErr.Data),
                  val |-> NoVal]
    ELSE IF target # "nil"
         THEN LET d == DecodeOut(target, body)
              IN IF ~d.ok
                 THEN [err |-> LocalErr("decode"), val |-> NoVal]
                 ELSE [err |-> NoErr, val |-> d.val]
         ELSE [err |-> NoErr, val |-> NoVal]


(***************************************************************************)
(* The requests and the responses of the main specification.               *)
(***************************************************************************)
\* AuthHeader with the header set whatever the token is.
AuthHeaderAlways(tok) == [has |-> TRUE, val |-> tok]

\* The Authorization header of a request built while the stored token is tok:
\* has says whether the header is set at all.
AuthHeader(tok) == [has |-> tok # "", val |-> IF tok # "" THEN tok ELSE ""]

\* doRequest's "Set headers" and "Add authorization header".
doRequestHeaders(userAgent, tok) ==
    [ContentType |-> "application/json",
     Accept |-> "application/json",
     UserAgent |-> userAgent,
     Authorization |-> AuthHeader(tok)]

\* doMultipartRequest's "Set headers" and "Add authorization header".
doMultipartRequestHeaders(userAgent, tok) ==
    [ContentType |-> "multipart/form-data; boundary",
     Accept |-> "application/json",
     UserAgent |-> userAgent,
     Authorization |-> AuthHeader(tok)]

\* The query parameters of a list request besides page: each is set, with a
\* value, or left out of the query string.
NoQuery ==
    [perPage |-> [set |-> FALSE, val |-> 0],
     sort |-> [set |-> FALSE, val |-> ""],
     filter |-> [set |-> FALSE, val |-> ""],
     expand |-> [set |-> FALSE, val |-> <<>>],
     fields |-> [set |-> FALSE, val |-> <<>>]]

\* A request as the server sees it; page is 0 when the URL has no page parameter.
Request(method, path, coll, pg, tok, ctype) ==
    [method |-> method, path |-> path, coll |-> coll, page |-> pg,
     auth |-> AuthHeader(tok), ctype |-> ctype, accept |-> "application/json",
     query |-> NoQuery]

NoRequest ==
    [method |-> "", path |-> "", coll |-> "", page |-> 0,
     auth |-> [has |-> FALSE, val |-> ""], ctype |-> "", accept |-> "",
     query |-> NoQuery]

\* What HTTPClient.Do returns: an error (kind "neterr") or a response.
Http(code, body) == [kind |-> "http", code |-> code, body |-> body, cause |-> ""]
NetErr == [kind |-> "neterr", code |-> 0, body |-> BadBody, cause |-> ""]
NoResponse == [kind |-> "none", code |-> 0, body |-> BadBody, cause |-> ""]

\* The states of a caller's context: live, or done with ctx.Err() being
\* context.Canceled or context.DeadlineExceeded.
CtxErrs == {"context canceled", "context deadline exceeded"}

\* What HTTPClient.Do returns for a request whose context is done: an error
\* that wraps ctx.Err().
CtxErr(cause) == [NetErr EXCEPT !.cause = cause]

\* A well-formed error payload reporting this status.
ErrBody(code) ==
    ObjBody("error", [NoFields EXCEPT !["status"] = Num(code),
                                      !["message"] = Str("server message"),
                                      !["data"] = Obj("detail")])

\* The record the server returns with a token: each token is that of one user.
UserOf(tok) == IF tok = "t1" THEN "admin" ELSE "user"

\* An auth-with-password / impersonate payload.
AuthBody(tok) ==
    ObjBody("auth", [NoFields EXCEPT !["token"] = Str(tok),
                                     !["record"] = Obj(UserOf(tok))])

\* The same payload without its token field.
AuthBodyNoToken == ObjBody("auth", [NoFields EXCEPT !["record"] = Obj("user")])

\* The items of page pg of the collection, n of them: item i of page pg is the
\* number 10 * pg + i, so that every item of the collection is distinct.
ItemsOf(pg, n) == [i \in 1..n |-> 10 * pg + i]

\* A list payload.
ListBody(totalPages, items) ==
    ObjBody("list", [NoFields EXCEPT !["totalPages"] = Num(totalPages),
                                     !["items"] = Arr(items)])

\* The failures every endpoint can answer with.
FailureResponses ==
    {Http(200, BadBody), Http(401, ErrBody(401)), Http(500, BadBody), NetErr}

AuthResponses ==
    {Http(200, AuthBody(t)) : t \in Tokens \ {""}} \cup {Http(200, AuthBodyNoToken)}
        \cup FailureResponses

RecordResponses == {Http(200, ObjBody("rec", NoFields))} \cup FailureResponses

\* What the server answers to a request for page pg: any number of total
\* pages, with a page of items when pg is one of them and a page that may be
\* empty when it is not; or a failure.
ListResponses(pg) ==
    UNION {{Http(200, ListBody(tp, ItemsOf(pg, n))) :
                n \in {c \in ItemCounts : pg <= tp => c # 0}} : tp \in 0..MaxPages}
        \cup FailureResponses

(***************************************************************************)
(* The operations.                                                         *)
(***************************************************************************)
AuthOps == {"AuthenticateWithPassword", "AuthenticateAsSuperuser"}
JsonRecordOps == {"GetRecord", "CreateRecord", "UpdateRecord"}
FileOps == {"CreateRecordWithFiles", "UpdateRecordWithFiles"}
RecordOps == JsonRecordOps \cup FileOps

\* The HTTP method each operation passes to doRequest.
Method(o) ==
    CASE o \in AuthOps \cup {"Impersonate", "CreateRecord", "CreateRecordWithFiles"} -> "POST"
      [] o \in {"UpdateRecord", "UpdateRecordWithFiles"} -> "PATCH"
      [] OTHER -> "GET"

\* The endpoint each operation builds.
Path(o) ==
    CASE o \in AuthOps -> "auth-with-password"
      [] o = "Impersonate" -> "impersonate/id"
      [] o \in {"GetRecord", "UpdateRecord", "UpdateRecordWithFiles"} -> "records/id"
      [] OTHER -> "records"

Collection(o) == IF o = "AuthenticateAsSuperuser" THEN "_superusers" ELSE "users"

\* The destination each operation passes as out.
Target(o) ==
    CASE o \in AuthOps -> "authResp"
      [] o = "Impersonate" -> "impersonateResp"
      [] o = "GetAllRecords" -> "listResp"
      [] OTHER -> "Record"

\* doRequest's first lines: a *FileUploadOptions body goes to doMultipartRequest.
IsMultipart(o) == o \in FileOps

ContentType(o) == IF IsMultipart(o) THEN "multipart/form-data" ELSE "application/json"

\* Transport that reports an error of HTTPClient.Do as an API error.
TransportErrAsAPIError(multipart, target, r) ==
    IF r.kind = "neterr"
    THEN [err |-> APIError(0, r.cause, NilRec), val |-> NoVal]
    ELSE IF multipart
         THEN doMultipartRequestResponse(r.code, r.body, target)
         ELSE doRequestResponse(r.code, r.body, target)

\* doRequest / doMultipartRequest from HTTPClient.Do on: a transport failure is a
\* local error, a response is handled by the path that sent the request.
Transport(multipart, target, r) ==
    IF r.kind = "neterr"
    THEN [err |-> WrappedErr("execute", r.cause), val |-> NoVal]
    ELSE IF multipart
         THEN doMultipartRequestResponse(r.code, r.body, target)
         ELSE doRequestResponse(r.code, r.body, target)

\* The outcome of doRequest for operation o when HTTPClient.Do returned r.
doRequest(o, r) == Transport(IsMultipart(o), Target(o), r)

(***************************************************************************)
(* ListOptions and the options GetAllRecords reads.                        *)
(***************************************************************************)
DefaultListOptions ==
    [Page |-> 1, PerPage |-> 30, Sort |-> "", Filter |-> "", Expand |-> <<>>,
     Fields |-> <<>>]

WithPage(n, opts) == [opts EXCEPT !.Page = n]

WithPerPage(perPage, opts) == [opts EXCEPT !.PerPage = perPage]

WithSort(sort, opts) == [opts EXCEPT !.Sort = sort]

WithFilter(filter, opts) == [opts EXCEPT !.Filter = filter]

WithListExpand(fields, opts) == [opts EXCEPT !.Expand = fields]

WithListFields(fields, opts) == [opts EXCEPT !.Fields = fields]

\* strings.Join(fields, ",")
RECURSIVE Join(_)
Join(fields) ==
    IF Len(fields) <= 1
    THEN fields
    ELSE <<Head(fields), ",">> \o Join(Tail(fields))

\* ListQuery that sets every parameter, whether the caller set it or not.
ListQueryEverySet(opts) ==
    [perPage |-> [set |-> TRUE, val |-> opts.PerPage],
     sort |-> [set |-> TRUE, val |-> opts.Sort],
     filter |-> [set |-> TRUE, val |-> opts.Filter],
     expand |-> [set |-> TRUE, val |-> Join(opts.Expand)],
     fields |-> [set |-> TRUE, val |-> Join(opts.Fields)]]

\* getRecordPage's "Build query parameters", page aside.
ListQuery(opts) ==
    [perPage |-> IF opts.PerPage > 0
                 THEN [set |-> TRUE, val |-> opts.PerPage]
                 ELSE [set |-> FALSE, val |-> 0],
     sort |-> IF opts.Sort # ""
              THEN [set |-> TRUE, val |-> opts.Sort]
              ELSE [set |-> FALSE, val |-> ""],
     filter |-> IF opts.Filter # ""
                THEN [set |-> TRUE, val |-> opts.Filter]
                ELSE [set |-> FALSE, val |-> ""],
     expand |-> IF Len(opts.Expand) > 0
                THEN [set |-> TRUE, val |-> Join(opts.Expand)]
                ELSE [set |-> FALSE, val |-> <<>>],
     fields |-> IF Len(opts.Fields) > 0
                THEN [set |-> TRUE, val |-> Join(opts.Fields)]
                ELSE [set |-> FALSE, val |-> <<>>]]

\* The request getRecordPage sends for page pg under these options while the
\* stored token is tok.
getRecordPageRequest(opts, pg, tok) ==
    [Request("GET", "records", "users", pg, tok, "application/json")
        EXCEPT !.query = ListQuery(opts)]

\* The options the callers of GetAllRecords pass, applied to the defaults: one
\* page or none, and some settings of the other options.
ListOptionChoices ==
    {DefaultListOptions}
        \cup {WithPage(n, DefaultListOptions) : n \in (-1)..MaxPages}
        \cup {WithListFields(<<"id">>,
                 WithListExpand(<<"author", "tags">>,
                   WithFilter("a=1",
                     WithSort("-created",
                       WithPerPage(50, WithPage(n, DefaultListOptions)))))) : n \in {1, 2}}
        \cup {WithFilter("a=1", WithPerPage(0, DefaultListOptions))}

(***************************************************************************)
(* The state.                                                              *)
(***************************************************************************)
VARIABLES
    token,       \* Client.token
    pc,          \* where each caller is: "idle", "wait", "store", "done"
    op,          \* the operation each caller is in ("" when idle)
    options,     \* GetAllRecords: its ListOptions
    page,        \* GetAllRecords: its page counter
    allRecords,  \* GetAllRecords: the records accumulated so far
    req,         \* the last request the call sent
    sent,        \* the page parameters of the requests the call sent, in order
    firstAuth,   \* the Authorization header of the first of them, once it is sent
    last,        \* what HTTPClient.Do returned last
    out,         \* what the call returns: [err, val]
    given,       \* GetAllRecords: the ListOptions as the caller's options left them
    got,         \* GetAllRecords: the decoded list responses, in order
    ctx,         \* the context of each caller's call: "live", or its ctx.Err()
    input,       \* the response-handling check: the response handed to the transport
    output,      \* the response-handling check: what the transport returned
    tokenMu,     \* the token-store check: the state of Client.tokenMu
    cell,        \* the token-store check: the two words of the token field
    tpc,         \* the token-store check: where each goroutine is
    targ,        \* the token-store check: the argument of SetToken
    tret,        \* the token-store check: the words GetToken read
    written,     \* the token-store check: the values passed to SetToken so far
    lastSet,     \* the token-store check: the argument of the SetToken that
                 \* returned last ("" before any)
    snap,        \* the token-store check: per reader, the stored value when its
                 \* GetToken began, or Unknown when a SetToken overlapped it
    apiErr,      \* the error-helper check: the *APIError the helpers are called on
    helpers,     \* the error-helper check: what the four helpers returned
    call,        \* the request-building check: the arguments of NewClient and of
                 \* the one operation called on the client
    client,      \* the request-building check: the Client NewClient returned
    built,       \* the request-building check: what building the request gave
    wire         \* the request-building check: the requests handed to
                 \* HTTPClient.Do, in order

\* The variables of the client specification.
clientVars ==
    <<token, pc, op, options, page, allRecords, req, sent, firstAuth, last, out, given, got,
      ctx>>
\* The variables of the response-handling check.
handleVars == <<input, output>>
\* The variables of the token-store check.
storeVars == <<tokenMu, cell, tpc, targ, tret, written, lastSet, snap>>

\* The variables of the error-helper check.
errVars == <<apiErr, helpers>>
\* The variables of the request-building check.
buildVars == <<call, client, built, wire>>
pureVars == <<errVars, buildVars>>

\* What the client specification leaves alone.
otherVars == <<handleVars, storeVars, pureVars>>

vars == <<clientVars, handleVars, storeVars, pureVars>>

NoOut == [err |-> NoErr, val |-> NoVal]

\* The response-handling check at rest.
NoInput ==
    [multipart |-> FALSE, target |-> "nil", r |-> NoResponse, token |-> "",
     userAgent |-> ""]

\* No header set.
NoHeaders ==
    [ContentType |-> "", Accept |-> "", UserAgent |-> "",
     Authorization |-> [has |-> FALSE, val |-> ""]]

InitHandleIdle ==
    /\ input = NoInput
    /\ output = [done |-> FALSE, res |-> NoOut, headers |-> NoHeaders]

\* The error-helper check at rest.
NoHelpers ==
    [done |-> FALSE, IsNotFound |-> FALSE, IsUnauthorized |-> FALSE,
     IsForbidden |-> FALSE, IsBadRequest |-> FALSE]

InitErrorsIdle ==
    /\ apiErr = APIError(0, "", NilRec)
    /\ helpers = NoHelpers

\* A request with its URL and body, as the request-building check sees it.
NoBody == [kind |-> "none", keys |-> {}, duration |-> 0, parts |-> <<>>]

NoBuiltRequest ==
    [method |-> "", url |-> <<>>, body |-> NoBody, query |-> NoQuery, page |-> 0]

\* An *http.Client: which allocation it is, and its Timeout field.
HTTPClientOf(handle, timeout) == [handle |-> handle, Timeout |-> timeout]

NilHTTPClient == HTTPClientOf("nil", 0)

\* An operation that has no options struct.
NoOptions == [none |-> TRUE]

\* The request-building check at rest.
NoCall ==
    [baseURL |-> <<>>, op |-> "", duration |-> 0, marshals |-> TRUE,
     fileUploads |-> <<>>, failAt |-> 0, opts |-> <<>>, listOpts |-> <<>>,
     queryOpts |-> <<>>]

NoClient ==
    [made |-> FALSE, BaseURL |-> <<>>, HTTPClient |-> NilHTTPClient, userAgent |-> ""]

NoBuilt ==
    [done |-> FALSE, err |-> NoErr, req |-> NoBuiltRequest, order |-> <<>>,
     options |-> NoOptions]

InitBuildIdle ==
    /\ call = NoCall
    /\ client = NoClient
    /\ built = NoBuilt
    /\ wire = <<>>

\* The checks that are not running.
InitPureIdle == InitErrorsIdle /\ InitBuildIdle

\* The goroutines of the token-store check.
Goroutines == {"g1", "g2", "g3"}

\* A Go string value is two words: the pointer to its bytes (named here by the
\* string it points into) and its length.
StrLen(t) == IF t = "" THEN 0 ELSE 2

Words(t) == [ptr |-> t, len |-> StrLen(t)]

\* No value: a reader's snapshot when a SetToken overlapped its GetToken.
Unknown == [ptr |-> "?", len |-> -1]

\* tokenMu unlocked: no writer holds it, no reader holds it.
Unlocked == [writer |-> "", readers |-> {}]

InitStoreIdle ==
    /\ tokenMu = Unlocked
    /\ cell = Words("")
    /\ tpc = [g \in Goroutines |-> "idle"]
    /\ targ = [g \in Goroutines |-> ""]
    /\ tret = [g \in Goroutines |-> Words("")]
    /\ written = {}
    /\ lastSet = ""
    /\ snap = [g \in Goroutines |-> Unknown]

\* The client specification at rest.
InitClientIdle ==
    /\ token = ""
    /\ pc = [p \in Callers |-> "idle"]
    /\ op = [p \in Callers |-> ""]
    /\ options = [p \in Callers |-> DefaultListOptions]
    /\ page = [p \in Callers |-> 0]
    /\ allRecords = [p \in Callers |-> <<>>]
    /\ req = [p \in Callers |-> NoRequest]
    /\ sent = [p \in Callers |-> <<>>]
    /\ firstAuth = [p \in Callers |-> <<>>]
    /\ last = [p \in Callers |-> NoResponse]
    /\ out = [p \in Callers |-> NoOut]
    /\ given = [p \in Callers |-> DefaultListOptions]
    /\ got = [p \in Callers |-> <<>>]
    /\ ctx = [p \in Callers |-> "live"]

Init ==
    /\ InitClientIdle
    /\ InitHandleIdle
    /\ InitStoreIdle
    /\ InitPureIdle

\* What HTTPClient.Do can return to caller p for a request the server would
\* answer with one of responses: the request carries the call's context, and
\* once that is done Do returns its error.
Answers(p, responses) ==
    IF ctx[p] = "live" THEN responses ELSE {CtxErr(ctx[p])}

\* The caller cancels the context of its call, or the deadline of the context
\* passes, while a request of the call is out.
Cancel(p) ==
    /\ pc[p] \in {"wait", "loop"}
    /\ ctx[p] = "live"
    /\ \E cause \in CtxErrs : ctx' = [ctx EXCEPT ![p] = cause]
    /\ UNCHANGED <<token, pc, op, options, page, allRecords, req, sent, firstAuth, last, out,
                   given, got, otherVars>>

\* Client.SetToken: the whole method, under tokenMu.
SetToken(p) ==
    /\ pc[p] = "idle"
    /\ \E t \in Tokens :
        /\ token' = t
        /\ out' = [out EXCEPT ![p] = [NoOut EXCEPT !.val.Token = t]]
    /\ pc' = [pc EXCEPT ![p] = "done"]
    /\ op' = [op EXCEPT ![p] = "SetToken"]
    /\ UNCHANGED <<options, page, allRecords, req, sent, firstAuth, last, given, got, ctx, otherVars>>

\* doRequest / doMultipartRequest up to HTTPClient.Do: the request is built, with
\* the token read at that moment, and sent.
Send(p, o, pg) ==
    /\ req' = [req EXCEPT ![p] =
                  Request(Method(o), Path(o), Collection(o), pg, token, ContentType(o))]
    /\ sent' = [sent EXCEPT ![p] = Append(sent[p], pg)]
    /\ firstAuth' = [firstAuth EXCEPT ![p] =
           IF firstAuth[p] = <<>> THEN <<req'[p].auth>> ELSE firstAuth[p]]
    /\ pc' = [pc EXCEPT ![p] = "wait"]

\* A call that ends now, with this result.
Finish(p, result) ==
    /\ pc' = [pc EXCEPT ![p] = "done"]
    /\ out' = [out EXCEPT ![p] = result]

\* The caller takes the result; the call's frame is gone.
Return(p) ==
    /\ pc[p] = "done"
    /\ pc' = [pc EXCEPT ![p] = "idle"]
    /\ op' = [op EXCEPT ![p] = ""]
    /\ options' = [options EXCEPT ![p] = DefaultListOptions]
    /\ page' = [page EXCEPT ![p] = 0]
    /\ allRecords' = [allRecords EXCEPT ![p] = <<>>]
    /\ req' = [req EXCEPT ![p] = NoRequest]
    /\ sent' = [sent EXCEPT ![p] = <<>>]
    /\ firstAuth' = [firstAuth EXCEPT ![p] = <<>>]
    /\ last' = [last EXCEPT ![p] = NoResponse]
    /\ out' = [out EXCEPT ![p] = NoOut]
    /\ given' = [given EXCEPT ![p] = DefaultListOptions]
    /\ got' = [got EXCEPT ![p] = <<>>]
    /\ ctx' = [ctx EXCEPT ![p] = "live"]
    /\ UNCHANGED <<token, otherVars>>


\* The variables only GetAllRecords writes.
listVars == <<options, page, allRecords, given, got>>

(***************************************************************************)
(* AuthenticateWithPassword and AuthenticateAsSuperuser.                   *)
(***************************************************************************)
\* AuthCall whose request never carries an Authorization header.
AuthCallNoHeader(p, o) ==
    /\ pc[p] = "idle"
    /\ op' = [op EXCEPT ![p] = o]
    /\ req' = [req EXCEPT ![p] =
                  Request(Method(o), Path(o), Collection(o), 0, "", ContentType(o))]
    /\ sent' = [sent EXCEPT ![p] = Append(sent[p], 0)]
    /\ firstAuth' = [firstAuth EXCEPT ![p] = <<req'[p].auth>>]
    /\ pc' = [pc EXCEPT ![p] = "wait"]
    /\ UNCHANGED <<token, last, out, listVars, ctx, otherVars>>

\* The call, up to the request being sent.
AuthCall(p, o) ==
    /\ pc[p] = "idle"
    /\ op' = [op EXCEPT ![p] = o]
    /\ Send(p, o, 0)
    /\ UNCHANGED <<token, last, out, listVars, ctx, otherVars>>

AuthenticateWithPassword(p) == AuthCall(p, "AuthenticateWithPassword")

\* AuthenticateAsSuperuser is AuthenticateWithPassword on "_superusers".
AuthenticateAsSuperuser(p) == AuthCall(p, "AuthenticateAsSuperuser")

\* AuthAfterRequest with c.SetToken(resp.Token) moved above the error check.
AuthAfterRequestEager(p, res) ==
    IF res.err.kind # "none"
    THEN /\ Finish(p, [err |-> res.err, val |-> NoVal])
         /\ token' = res.val.Token
    ELSE /\ pc' = [pc EXCEPT ![p] = "store"]
         /\ out' = [out EXCEPT ![p] = res]
         /\ token' = res.val.Token

\* AuthAfterRequest that clears the stored token when the authentication fails.
AuthAfterRequestClear(p, res) ==
    IF res.err.kind # "none"
    THEN /\ Finish(p, [err |-> res.err, val |-> NoVal])
         /\ token' = ""
    ELSE /\ pc' = [pc EXCEPT ![p] = "store"]
         /\ out' = [out EXCEPT ![p] = res]
         /\ UNCHANGED token

\* After doRequest returned res: an error is returned with no record; otherwise
\* the call goes on to store resp.Token.
AuthAfterRequest(p, res) ==
    IF res.err.kind # "none"
    THEN /\ Finish(p, [err |-> res.err, val |-> NoVal])
         /\ UNCHANGED token
    ELSE /\ pc' = [pc EXCEPT ![p] = "store"]
         /\ out' = [out EXCEPT ![p] = res]
         /\ UNCHANGED token

\* doRequest returns to AuthenticateWithPassword.
AuthReturn(p) ==
    /\ pc[p] = "wait"
    /\ op[p] \in AuthOps
    /\ \E r \in Answers(p, AuthResponses) :
        /\ last' = [last EXCEPT ![p] = r]
        /\ AuthAfterRequest(p, doRequest(op[p], r))
    /\ UNCHANGED <<op, req, sent, firstAuth, listVars, ctx, otherVars>>

\* AuthSetToken that keeps a token already stored.
AuthSetTokenKeep(p) ==
    /\ pc[p] = "store"
    /\ token' = IF token = "" THEN out[p].val.Token ELSE token
    /\ Finish(p, [err |-> NoErr, val |-> [NoVal EXCEPT !.Record = out[p].val.Record]])
    /\ UNCHANGED <<op, req, sent, firstAuth, last, listVars, ctx, otherVars>>

\* AuthSetToken that stores the token of the response only when it has one.
AuthSetTokenNonEmpty(p) ==
    /\ pc[p] = "store"
    /\ token' = IF out[p].val.Token # "" THEN out[p].val.Token ELSE token
    /\ Finish(p, [err |-> NoErr, val |-> [NoVal EXCEPT !.Record = out[p].val.Record]])
    /\ UNCHANGED <<op, req, sent, firstAuth, last, listVars, ctx, otherVars>>

\* c.SetToken(resp.Token); return resp.Record, nil.
AuthSetToken(p) ==
    /\ pc[p] = "store"
    /\ token' = out[p].val.Token
    /\ Finish(p, [err |-> NoErr, val |-> [NoVal EXCEPT !.Record = out[p].val.Record]])
    /\ UNCHANGED <<op, req, sent, firstAuth, last, listVars, ctx, otherVars>>

(***************************************************************************)
(* Impersonate.                                                            *)
(***************************************************************************)
Impersonate(p) ==
    /\ pc[p] = "idle"
    /\ op' = [op EXCEPT ![p] = "Impersonate"]
    /\ Send(p, "Impersonate", 0)
    /\ UNCHANGED <<token, last, out, listVars, ctx, otherVars>>

\* ImpersonateAfterRequest that also stores the impersonation token.
ImpersonateAfterRequestStoring(p, res) ==
    IF res.err.kind # "none"
    THEN /\ Finish(p, [err |-> res.err, val |-> NoVal])
         /\ UNCHANGED token
    ELSE /\ Finish(p, [err |-> NoErr,
                       val |-> [NoVal EXCEPT !.Token = res.val.Token,
                                             !.Record = res.val.Record]])
         /\ token' = res.val.Token

\* After doRequest returned res: nil and the error, or an ImpersonateResult with
\* the response's token and record.
ImpersonateAfterRequest(p, res) ==
    /\ IF res.err.kind # "none"
       THEN Finish(p, [err |-> res.err, val |-> NoVal])
       ELSE Finish(p, [err |-> NoErr,
                       val |-> [NoVal EXCEPT !.Token = res.val.Token,
                                             !.Record = res.val.Record]])
    /\ UNCHANGED token

ImpersonateReturn(p) ==
    /\ pc[p] = "wait"
    /\ op[p] = "Impersonate"
    /\ \E r \in Answers(p, AuthResponses) :
        /\ last' = [last EXCEPT ![p] = r]
        /\ ImpersonateAfterRequest(p, doRequest(op[p], r))
    /\ UNCHANGED <<op, req, sent, firstAuth, listVars, ctx, otherVars>>

(***************************************************************************)
(* GetRecord, CreateRecord, UpdateRecord, CreateRecordWithFiles and        *)
(* UpdateRecordWithFiles.                                                  *)
(***************************************************************************)
\* The call: the body is encoded (json.Marshal, or the multipart writer), which
\* can fail before any request exists; otherwise the request is sent.
RecordCall(p, o, encodes) ==
    /\ pc[p] = "idle"
    /\ op' = [op EXCEPT ![p] = o]
    /\ IF encodes
       THEN /\ Send(p, o, 0)
            /\ UNCHANGED out
       ELSE /\ Finish(p, [err |-> LocalErr("encode"), val |-> NoVal])
            /\ UNCHANGED <<req, sent, firstAuth>>
    /\ UNCHANGED <<token, last, listVars, ctx, otherVars>>

\* GetRecord sends no body.
GetRecord(p) == RecordCall(p, "GetRecord", TRUE)

CreateRecord(p) == \E encodes \in BOOLEAN : RecordCall(p, "CreateRecord", encodes)

UpdateRecord(p) == \E encodes \in BOOLEAN : RecordCall(p, "UpdateRecord", encodes)

CreateRecordWithFiles(p) ==
    \E encodes \in BOOLEAN : RecordCall(p, "CreateRecordWithFiles", encodes)

UpdateRecordWithFiles(p) ==
    \E encodes \in BOOLEAN : RecordCall(p, "UpdateRecordWithFiles", encodes)

\* After doRequest returned res: nil and the error, or the decoded record.
RecordAfterRequest(p, res) ==
    /\ IF res.err.kind # "none"
       THEN Finish(p, [err |-> res.err, val |-> NoVal])
       ELSE Finish(p, [err |-> NoErr, val |-> [NoVal EXCEPT !.Record = res.val.Record]])
    /\ UNCHANGED token

\* RecordReturn that sends the request again when the answer is a 401.
RecordReturnRetry401(p) ==
    /\ pc[p] = "wait"
    /\ op[p] \in RecordOps
    /\ \E r \in Answers(p, RecordResponses) :
        /\ last' = [last EXCEPT ![p] = r]
        /\ IF r.kind = "http" /\ r.code = 401 /\ Len(sent[p]) < 2
           THEN /\ Send(p, op[p], 0)
                /\ UNCHANGED <<token, out>>
           ELSE /\ RecordAfterRequest(p, doRequest(op[p], r))
                /\ UNCHANGED <<req, sent, firstAuth>>
    /\ UNCHANGED <<op, listVars, ctx, otherVars>>

\* doRequest returns to the record operation.
RecordReturn(p) ==
    /\ pc[p] = "wait"
    /\ op[p] \in RecordOps
    /\ \E r \in Answers(p, RecordResponses) :
        /\ last' = [last EXCEPT ![p] = r]
        /\ RecordAfterRequest(p, doRequest(op[p], r))
    /\ UNCHANGED <<op, req, sent, firstAuth, listVars, ctx, otherVars>>

(***************************************************************************)
(* GetAllRecords.                                                          *)
(***************************************************************************)
\* FirstPage that starts wherever the caller's page says.
FirstPageUnclamped(opts) == opts.Page

\* The page the first request asks for: the requested page when it is above 1
\* (the single-page branch), page 1 otherwise.
FirstPage(opts) == IF opts.Page > 1 THEN opts.Page ELSE 1

\* The call, up to its first getRecordPage request: pc "wait" in the single-page
\* branch, "loop" in the for loop.
GetAllRecords(p) ==
    /\ pc[p] = "idle"
    /\ op' = [op EXCEPT ![p] = "GetAllRecords"]
    /\ \E opts \in ListOptionChoices :
        /\ given' = [given EXCEPT ![p] = opts]
        /\ options' = [options EXCEPT ![p] = [opts EXCEPT !.Page = FirstPage(opts)]]
        /\ page' = [page EXCEPT ![p] = FirstPage(opts)]
        /\ req' = [req EXCEPT ![p] =
                      getRecordPageRequest([opts EXCEPT !.Page = FirstPage(opts)],
                                           FirstPage(opts), token)]
        /\ sent' = [sent EXCEPT ![p] = <<FirstPage(opts)>>]
        /\ firstAuth' = [firstAuth EXCEPT ![p] = <<req'[p].auth>>]
        /\ pc' = [pc EXCEPT ![p] = IF opts.Page > 1 THEN "wait" ELSE "loop"]
    /\ UNCHANGED <<token, last, out, allRecords, got, ctx, otherVars>>

\* SinglePageAfterRequest without its return: the call goes on like the loop.
SinglePageAfterRequestFallThrough(p, res) ==
    IF res.err.kind # "none"
    THEN /\ Finish(p, [err |-> res.err, val |-> NoVal])
         /\ UNCHANGED <<token, req, sent, firstAuth, page, options, allRecords>>
    ELSE /\ allRecords' = [allRecords EXCEPT ![p] = allRecords[p] \o res.val.Items]
         /\ IF page[p] >= res.val.TotalPages
            THEN /\ Finish(p, [err |-> NoErr,
                               val |-> [NoVal EXCEPT !.Items = allRecords'[p]]])
                 /\ UNCHANGED <<token, req, sent, firstAuth, page, options>>
            ELSE /\ page' = [page EXCEPT ![p] = page[p] + 1]
                 /\ options' = [options EXCEPT ![p].Page = page[p] + 1]
                 /\ req' = [req EXCEPT ![p] =
                               getRecordPageRequest(options'[p], page[p] + 1, token)]
                 /\ sent' = [sent EXCEPT ![p] = Append(sent[p], page[p] + 1)]
                 /\ firstAuth' = [firstAuth EXCEPT ![p] =
                        IF firstAuth[p] = <<>> THEN <<req'[p].auth>> ELSE firstAuth[p]]
                 /\ UNCHANGED <<token, pc, out>>

\* The single-page branch after getRecordPage returned res.
SinglePageAfterRequest(p, res) ==
    /\ IF res.err.kind # "none"
       THEN Finish(p, [err |-> res.err, val |-> NoVal])
       ELSE Finish(p, [err |-> NoErr, val |-> [NoVal EXCEPT !.Items = res.val.Items]])
    /\ UNCHANGED <<token, req, sent, firstAuth, page, options, allRecords>>

\* LastPage that stops one page late.
LastPageStrict(pg, totalPages) == pg > totalPages

\* LastPage that goes on when the server reports no pages at all.
LastPageNonZero(pg, totalPages) == pg >= totalPages /\ totalPages > 0

\* Whether the loop stops after a page that reported totalPages.
LastPage(pg, totalPages) == pg >= totalPages

\* LoopAfterRequest that returns the records gathered so far with the error.
LoopAfterRequestPartial(p, res) ==
    IF res.err.kind # "none"
    THEN /\ Finish(p, [err |-> res.err, val |-> [NoVal EXCEPT !.Items = allRecords[p]]])
         /\ UNCHANGED <<token, req, sent, firstAuth, page, options, allRecords>>
    ELSE /\ allRecords' = [allRecords EXCEPT ![p] = allRecords[p] \o res.val.Items]
         /\ IF page[p] >= res.val.TotalPages
            THEN /\ Finish(p, [err |-> NoErr,
                               val |-> [NoVal EXCEPT !.Items = allRecords'[p]]])
                 /\ UNCHANGED <<token, req, sent, firstAuth, page, options>>
            ELSE /\ page' = [page EXCEPT ![p] = page[p] + 1]
                 /\ options' = [options EXCEPT ![p].Page = page[p] + 1]
                 /\ req' = [req EXCEPT ![p] =
                               getRecordPageRequest(options'[p], page[p] + 1, token)]
                 /\ sent' = [sent EXCEPT ![p] = Append(sent[p], page[p] + 1)]
                 /\ firstAuth' = [firstAuth EXCEPT ![p] =
                        IF firstAuth[p] = <<>> THEN <<req'[p].auth>> ELSE firstAuth[p]]
                 /\ UNCHANGED <<token, pc, out>>

\* LoopAfterRequest that sends every page with the Authorization header of the
\* first one.
LoopAfterRequestFirstToken(p, res) ==
    IF res.err.kind # "none"
    THEN /\ Finish(p, [err |-> res.err, val |-> NoVal])
         /\ UNCHANGED <<token, req, sent, firstAuth, page, options, allRecords>>
    ELSE /\ allRecords' = [allRecords EXCEPT ![p] = allRecords[p] \o res.val.Items]
         /\ IF page[p] >= res.val.TotalPages
            THEN /\ Finish(p, [err |-> NoErr,
                               val |-> [NoVal EXCEPT !.Items = allRecords'[p]]])
                 /\ UNCHANGED <<token, req, sent, firstAuth, page, options>>
            ELSE /\ page' = [page EXCEPT ![p] = page[p] + 1]
                 /\ options' = [options EXCEPT ![p].Page = page[p] + 1]
                 /\ req' = [req EXCEPT ![p] =
                               [getRecordPageRequest(options'[p], page[p] + 1, token)
                                   EXCEPT !.auth = firstAuth[p][1]]]
                 /\ sent' = [sent EXCEPT ![p] = Append(sent[p], page[p] + 1)]
                 /\ firstAuth' = [firstAuth EXCEPT ![p] =
                        IF firstAuth[p] = <<>> THEN <<req'[p].auth>> ELSE firstAuth[p]]
                 /\ UNCHANGED <<token, pc, out>>

\* One turn of the for loop after getRecordPage returned res: the error ends the
\* call with no records; otherwise the items are appended and the loop either
\* ends or asks for the next page (the token is read again for that request).
LoopAfterRequest(p, res) ==
    IF res.err.kind # "none"
    THEN /\ Finish(p, [err |-> res.err, val |-> NoVal])
         /\ UNCHANGED <<token, req, sent, firstAuth, page, options, allRecords>>
    ELSE /\ allRecords' = [allRecords EXCEPT ![p] = allRecords[p] \o res.val.Items]
         /\ IF LastPage(page[p], res.val.TotalPages)
            THEN /\ Finish(p, [err |-> NoErr,
                               val |-> [NoVal EXCEPT !.Items = allRecords'[p]]])
                 /\ UNCHANGED <<token, req, sent, firstAuth, page, options>>
            ELSE /\ page' = [page EXCEPT ![p] = page[p] + 1]
                 /\ options' = [options EXCEPT ![p].Page = page[p] + 1]
                 /\ req' = [req EXCEPT ![p] =
                               getRecordPageRequest(options'[p], page[p] + 1, token)]
                 /\ sent' = [sent EXCEPT ![p] = Append(sent[p], page[p] + 1)]
                 /\ firstAuth' = [firstAuth EXCEPT ![p] =
                        IF firstAuth[p] = <<>> THEN <<req'[p].auth>> ELSE firstAuth[p]]
                 /\ UNCHANGED <<token, pc, out>>

\* getRecordPage returns to GetAllRecords.
GetAllRecordsReturn(p) ==
    /\ pc[p] \in {"wait", "loop"}
    /\ op[p] = "GetAllRecords"
    /\ \E r \in Answers(p, ListResponses(req[p].page)) :
        LET res == doRequest(op[p], r)
        IN /\ last' = [last EXCEPT ![p] = r]
           /\ got' = [got EXCEPT ![p] =
                         IF res.err.kind = "none" THEN Append(got[p], res.val) ELSE got[p]]
           /\ IF pc[p] = "wait"
              THEN SinglePageAfterRequest(p, res)
              ELSE LoopAfterRequest(p, res)
    /\ UNCHANGED <<op, given, ctx, otherVars>>

(***************************************************************************)
(* The specification: any number of calls by each caller, interleaved.     *)
(***************************************************************************)
Next ==
    \/ \E p \in Callers :
        \/ SetToken(p)
        \/ AuthenticateWithPassword(p)
        \/ AuthReturn(p)
        \/ AuthSetToken(p)
        \/ Return(p)
    \/ \E p \in FullCallers :
        \/ AuthenticateAsSuperuser(p)
        \/ Impersonate(p)
        \/ ImpersonateReturn(p)
        \/ GetRecord(p)
        \/ CreateRecord(p)
        \/ UpdateRecord(p)
        \/ CreateRecordWithFiles(p)
        \/ UpdateRecordWithFiles(p)
        \/ RecordReturn(p)
        \/ GetAllRecords(p)
        \/ GetAllRecordsReturn(p)
        \/ Cancel(p)

Spec == Init /\ [][Next]_vars

(***************************************************************************)
(* The response-handling check: the transport applied to one response,     *)
(* drawn from every status code, body and destination of the model.        *)
(***************************************************************************)
\* The bodies: not JSON, null, a JSON string, and objects whose status, message
\* and data fields are absent, null, of the expected type or of another type;
\* the payloads of the other endpoints.
HandleBodies ==
    {BadBody, NullBody, ScalarBody, AuthBodyNoToken, ObjBody("rec", NoFields)}
        \cup {ObjBody("error", [NoFields EXCEPT !["status"] = st,
                                                !["message"] = m,
                                                !["data"] = d]) :
                st \in {Absent, Null, Num(400), Num(401), Num(403), Num(404), Str("400")},
                m \in {Absent, Str("server message"), Num(7)},
                d \in {Absent, Obj("detail"), Str("oops")}}
        \cup {AuthBody(t) : t \in Tokens \ {""}}
        \cup {ListBody(tp, ItemsOf(1, n)) : tp \in 0..MaxPages, n \in ItemCounts}

\* Client.userAgent: NewClient's default, or the one WithUserAgent set.
UserAgents == {"pocketbase-go/1.0", "MyApp/1.0"}

HandleInputs ==
    [multipart : BOOLEAN, target : Targets,
     r : {Http(c, b) : c \in StatusCodes, b \in HandleBodies} \cup {NetErr},
     token : Tokens, userAgent : UserAgents]

InitHandle ==
    /\ InitClientIdle
    /\ InitStoreIdle
    /\ InitPureIdle
    /\ input \in HandleInputs
    /\ output = [done |-> FALSE, res |-> NoOut, headers |-> NoHeaders]

\* The transport, having set the headers of its request, returns for the
\* response it was handed.
Handle ==
    /\ ~output.done
    /\ output' = [done |-> TRUE,
                  res |-> Transport(input.multipart, input.target, input.r),
                  headers |-> IF input.multipart
                              THEN doMultipartRequestHeaders(input.userAgent, input.token)
                              ELSE doRequestHeaders(input.userAgent, input.token)]
    /\ UNCHANGED <<input, clientVars, storeVars, pureVars>>

NextHandle == Handle

SpecHandle == InitHandle /\ [][NextHandle]_vars

(***************************************************************************)
(* The token-store check: goroutines calling SetToken and GetToken, each   *)
(* method one step per lock operation and per word of the token field.     *)
(* tpc is "idle", then for SetToken "Lock", "write", "wrotePtr" or         *)
(* "wroteLen", "Unlock", and for GetToken "RLock", "RLockWait" (blocked in *)
(* RLock until a writer unlocks), "read", "readPtr" or                      *)
(* "readLen", "RUnlock", "ret".                                            *)
(***************************************************************************)
InSetToken(g) == tpc[g] \in {"Lock", "write", "wrotePtr", "wroteLen", "Unlock"}

InGetToken(g) ==
    tpc[g] \in {"RLock", "RLockWait", "read", "readPtr", "readLen", "RUnlock"}

\* The goroutines blocked in, or about to return from, tokenMu.Lock().
PendingWriters == {g \in Goroutines : tpc[g] = "Lock"}

\* tokenMu.Lock() returns when no writer and no reader holds the lock.
CanLock(mu) == mu.writer = "" /\ mu.readers = {}

\* CanRLock of a GetToken that does not wait for the lock.
CanRLockAlways(mu, pending) == TRUE

\* tokenMu.RLock() returns when no writer holds the lock and none is pending.
CanRLock(mu, pending) == mu.writer = "" /\ pending = {}

\* SetToken is called with some token.
SetTokenCall(g) ==
    /\ tpc[g] = "idle"
    /\ \E t \in Tokens :
        /\ targ' = [targ EXCEPT ![g] = t]
        /\ written' = written \cup {t}
    /\ tpc' = [tpc EXCEPT ![g] = "Lock"]
    /\ snap' = [h \in Goroutines |-> IF InGetToken(h) THEN Unknown ELSE snap[h]]
    /\ UNCHANGED <<tokenMu, cell, tret, lastSet, clientVars, handleVars, pureVars>>

\* c.tokenMu.Lock()
Lock(g) ==
    /\ tpc[g] = "Lock"
    /\ CanLock(tokenMu)
    /\ tokenMu' = [tokenMu EXCEPT !.writer = g]
    /\ tpc' = [tpc EXCEPT ![g] = "write"]
    /\ UNCHANGED <<cell, targ, tret, written, lastSet, snap, clientVars, handleVars, pureVars>>

\* c.token = token, the pointer word.
StorePtr(g) ==
    /\ tpc[g] \in {"write", "wroteLen"}
    /\ cell' = [cell EXCEPT !.ptr = Words(targ[g]).ptr]
    /\ tpc' = [tpc EXCEPT ![g] = IF tpc[g] = "write" THEN "wrotePtr" ELSE "Unlock"]
    /\ UNCHANGED <<tokenMu, targ, tret, written, lastSet, snap, clientVars, handleVars, pureVars>>

\* c.token = token, the length word.
StoreLen(g) ==
    /\ tpc[g] \in {"write", "wrotePtr"}
    /\ cell' = [cell EXCEPT !.len = Words(targ[g]).len]
    /\ tpc' = [tpc EXCEPT ![g] = IF tpc[g] = "write" THEN "wroteLen" ELSE "Unlock"]
    /\ UNCHANGED <<tokenMu, targ, tret, written, lastSet, snap, clientVars, handleVars, pureVars>>

\* defer c.tokenMu.Unlock(); SetToken returns.  Unlock hands the lock to the
\* readers blocked in RLock before any writer can take it.
Unlock(g) ==
    /\ tpc[g] = "Unlock"
    /\ tokenMu' = [writer |-> "", readers |-> {h \in Goroutines : tpc[h] = "RLockWait"}]
    /\ tpc' = [h \in Goroutines |->
                  IF h = g THEN "idle"
                  ELSE IF tpc[h] = "RLockWait" THEN "read" ELSE tpc[h]]
    /\ lastSet' = targ[g]
    /\ UNCHANGED <<cell, targ, tret, written, snap, clientVars, handleVars, pureVars>>

\* GetToken is called.  The snapshot is the value of the SetToken that returned
\* last if no SetToken is under way, and is lost as soon as one begins.
GetTokenCall(g) ==
    /\ tpc[g] = "idle"
    /\ tpc' = [tpc EXCEPT ![g] = "RLock"]
    /\ snap' = [snap EXCEPT ![g] =
                   IF \E h \in Goroutines : InSetToken(h)
                   THEN Unknown ELSE Words(lastSet)]
    /\ UNCHANGED <<tokenMu, cell, targ, tret, written, lastSet, clientVars, handleVars, pureVars>>

\* c.tokenMu.RLock(): the reader takes the lock, or blocks until the writer
\* that holds or awaits the lock unlocks.
RLock(g) ==
    /\ tpc[g] = "RLock"
    /\ IF CanRLock(tokenMu, PendingWriters)
       THEN /\ tokenMu' = [tokenMu EXCEPT !.readers = @ \cup {g}]
            /\ tpc' = [tpc EXCEPT ![g] = "read"]
       ELSE /\ tpc' = [tpc EXCEPT ![g] = "RLockWait"]
            /\ UNCHANGED tokenMu
    /\ UNCHANGED <<cell, targ, tret, written, lastSet, snap, clientVars, handleVars, pureVars>>

\* return c.token, the pointer word.
LoadPtr(g) ==
    /\ tpc[g] \in {"read", "readLen"}
    /\ tret' = [tret EXCEPT ![g].ptr = cell.ptr]
    /\ tpc' = [tpc EXCEPT ![g] = IF tpc[g] = "read" THEN "readPtr" ELSE "RUnlock"]
    /\ UNCHANGED <<tokenMu, cell, targ, written, lastSet, snap, clientVars, handleVars, pureVars>>

\* return c.token, the length word.
LoadLen(g) ==
    /\ tpc[g] \in {"read", "readPtr"}
    /\ tret' = [tret EXCEPT ![g].len = cell.len]
    /\ tpc' = [tpc EXCEPT ![g] = IF tpc[g] = "read" THEN "readLen" ELSE "RUnlock"]
    /\ UNCHANGED <<tokenMu, cell, targ, written, lastSet, snap, clientVars, handleVars, pureVars>>

\* GetToken that returns to its caller with the read lock still held.
RUnlockLeftToCaller(g) ==
    /\ tpc[g] = "RUnlock"
    /\ tpc' = [tpc EXCEPT ![g] = "ret"]
    /\ UNCHANGED <<tokenMu, cell, targ, tret, written, lastSet, snap, clientVars, handleVars, pureVars>>

\* defer c.tokenMu.RUnlock(); GetToken returns tret[g].
RUnlock(g) ==
    /\ tpc[g] = "RUnlock"
    /\ tokenMu' = [tokenMu EXCEPT !.readers = @ \ {g}]
    /\ tpc' = [tpc EXCEPT ![g] = "ret"]
    /\ UNCHANGED <<cell, targ, tret, written, lastSet, snap, clientVars, handleVars, pureVars>>

\* The caller of GetToken takes the value.
GetTokenDone(g) ==
    /\ tpc[g] = "ret"
    /\ tpc' = [tpc EXCEPT ![g] = "idle"]
    /\ tret' = [tret EXCEPT ![g] = Words("")]
    /\ snap' = [snap EXCEPT ![g] = Unknown]
    /\ UNCHANGED <<tokenMu, cell, targ, written, lastSet, clientVars, handleVars, pureVars>>

InitStore ==
    /\ InitClientIdle
    /\ InitHandleIdle
    /\ InitStoreIdle
    /\ InitPureIdle

NextStore ==
    \E g \in Goroutines :
        \/ SetTokenCall(g)
        \/ Lock(g)
        \/ StorePtr(g)
        \/ StoreLen(g)
        \/ Unlock(g)
        \/ GetTokenCall(g)
        \/ RLock(g)
        \/ LoadPtr(g)
        \/ LoadLen(g)
        \/ RUnlock(g)
        \/ GetTokenDone(g)

SpecStore == InitStore /\ [][NextStore]_vars

(***************************************************************************)
(* The token store while requests are in flight: a GetToken may be that of *)
(* doRequest, which goes on to HTTPClient.Do (tpc "Do") and, when the      *)
(* answer comes and the operation is a successful authentication, to       *)
(* SetToken.  The server need not answer.                                  *)
(***************************************************************************)
\* doRequest after "if token := c.GetToken()": the request goes out.
HTTPClientDo(g) ==
    /\ tpc[g] = "ret"
    /\ tpc' = [tpc EXCEPT ![g] = "Do"]
    /\ tret' = [tret EXCEPT ![g] = Words("")]
    /\ snap' = [snap EXCEPT ![g] = Unknown]
    /\ UNCHANGED <<tokenMu, cell, targ, written, lastSet, clientVars, handleVars, pureVars>>

\* HTTPClient.Do returns and the operation ends, or, for an authentication that
\* succeeded, calls SetToken with the token of the response.
DoReturns(g) ==
    /\ tpc[g] = "Do"
    /\ \/ /\ tpc' = [tpc EXCEPT ![g] = "idle"]
          /\ UNCHANGED <<targ, written, snap>>
       \/ /\ \E t \in Tokens :
                /\ targ' = [targ EXCEPT ![g] = t]
                /\ written' = written \cup {t}
          /\ tpc' = [tpc EXCEPT ![g] = "Lock"]
          /\ snap' = [h \in Goroutines |-> IF InGetToken(h) THEN Unknown ELSE snap[h]]
    /\ UNCHANGED <<tokenMu, cell, tret, lastSet, clientVars, handleVars, pureVars>>

\* A step inside SetToken or GetToken, between its call and its return.
TokenStep(g) ==
    \/ Lock(g)
    \/ StorePtr(g)
    \/ StoreLen(g)
    \/ Unlock(g)
    \/ RLock(g)
    \/ LoadPtr(g)
    \/ LoadLen(g)
    \/ RUnlock(g)

\* g1 runs operations that send a request, authentications among them; g2
\* calls SetToken and g3 calls GetToken, over and over.
NextFlight ==
    \/ GetTokenCall("g1")
    \/ HTTPClientDo("g1")
    \/ DoReturns("g1")
    \/ SetTokenCall("g2")
    \/ GetTokenCall("g3")
    \/ GetTokenDone("g3")
    \/ \E g \in Goroutines : TokenStep(g)

\* The scheduler runs every goroutine that can run, and of the goroutines
\* blocked in tokenMu.Lock() none is passed over for ever.  Nothing makes a
\* caller call, or the server answer.
FairFlight ==
    \A g \in Goroutines :
        /\ WF_vars(StorePtr(g) \/ StoreLen(g) \/ Unlock(g))
        /\ WF_vars(LoadPtr(g) \/ LoadLen(g) \/ RUnlock(g))
        /\ WF_vars(RLock(g))
        /\ SF_vars(Lock(g))

SpecFlight == InitStore /\ [][NextFlight]_vars /\ FairFlight

(***************************************************************************)
(* The error-helper check: IsNotFound, IsUnauthorized, IsForbidden and     *)
(* IsBadRequest called on an *APIError of any status.                      *)
(***************************************************************************)
IsNotFound(e) == e.Status = 404

IsUnauthorized(e) == e.Status = 401

IsForbidden(e) == e.Status = 403

\* IsBadRequest that is true of every client error.
IsBadRequestAny4xx(e) == e.Status >= 400 /\ e.Status < 500

IsBadRequest(e) == e.Status = 400

InitErrors ==
    /\ InitClientIdle
    /\ InitHandleIdle
    /\ InitStoreIdle
    /\ apiErr \in {APIError(st, m, d) : st \in 0..MaxStatus,
                                        m \in {"", "server message"},
                                        d \in {NilRec, "detail"}}
    /\ helpers = NoHelpers
    /\ InitBuildIdle

\* The four helpers are called on the error.
CallHelpers ==
    /\ ~helpers.done
    /\ helpers' = [done |-> TRUE,
                   IsNotFound |-> IsNotFound(apiErr),
                   IsUnauthorized |-> IsUnauthorized(apiErr),
                   IsForbidden |-> IsForbidden(apiErr),
                   IsBadRequest |-> IsBadRequest(apiErr)]
    /\ UNCHANGED <<apiErr, clientVars, handleVars, storeVars, buildVars>>

NextErrors == CallHelpers

SpecErrors == InitErrors /\ [][NextErrors]_vars

(***************************************************************************)
(* The request-building check: NewClient on some base URL, then one        *)
(* operation from its call to HTTPClient.Do.  Strings whose characters     *)
(* matter (the base URL, a multipart field name) are sequences.            *)
(***************************************************************************)
\* The characters of a base URL: some character that is not a slash, and "/".
URLChars == {"h", "/"}

SeqsUpTo(S, n) == UNION {[1..k -> S] : k \in 0..n}

BaseURLs == SeqsUpTo(URLChars, MaxBaseLen)

\* strings.TrimSuffix(baseURL, "/"): one trailing "/" is removed if there is one.
TrimSuffix(s) ==
    IF Len(s) > 0 /\ s[Len(s)] = "/" THEN SubSeq(s, 1, Len(s) - 1) ELSE s

\* The endpoint an operation formats.
Endpoint(o) == <<"/", "api", "/", "collections", "/", Collection(o), "/", Path(o)>>

\* The duration arguments of Impersonate.
Durations == {-1, 0, 1, 3600}

\* A Go map handed to doRequest as body (nil is the nil interface), and its
\* json.Marshal.
NilBody == [nil |-> TRUE, keys |-> {}, duration |-> 0]

MapBody(keys, duration) == [nil |-> FALSE, keys |-> keys, duration |-> duration]

Marshal(body) ==
    [kind |-> "json", keys |-> body.keys, duration |-> body.duration, parts |-> <<>>]

\* ImpersonateBody that sends the duration key whatever the duration is.
ImpersonateBodyAlways(duration) == MapBody({"duration"}, duration)

\* Impersonate's "Prepare request body with optional duration": the map gets
\* the key when duration > 0, and an empty map is not sent at all.
ImpersonateBody(duration) ==
    LET body == IF duration > 0 THEN MapBody({"duration"}, duration) ELSE MapBody({}, 0)
    IN IF Cardinality(body.keys) > 0 THEN body ELSE NilBody

\* The body each JSON operation hands to doRequest.
OpBody(c) ==
    CASE c.op \in AuthOps -> MapBody({"identity", "password"}, 0)
      [] c.op = "Impersonate" -> ImpersonateBody(c.duration)
      [] c.op \in {"CreateRecord", "UpdateRecord"} -> MapBody({"title"}, 0)
      [] OTHER -> NilBody

(***************************************************************************)
(* File uploads: FileData, FileUpload, FileUploadOptions and their options *)
(***************************************************************************)
\* A file: its name, and whether its Reader can be read to the end.
FileData(filename, readable) == [Filename |-> filename, readable |-> readable]

\* A Go value that json.Marshal rejects.
Chan == [t |-> "chan", n |-> 0, s |-> "", q |-> <<>>]

\* Record form data: the nil map, or a map given as its key/value pairs.
NilData == [nil |-> TRUE, kv |-> {}]

DataOf(kv) == [nil |-> FALSE, kv |-> kv]

\* The FileUploadModifier values.
ModAppend == [mod |-> "WithAppend", names |-> <<>>]

ModDelete(names) == [mod |-> "WithDelete", names |-> names]

WithAppend(upload) == [upload EXCEPT !.Append = TRUE]

WithDelete(filenames, upload) == [upload EXCEPT !.Delete = filenames]

\* option(&upload) for each modifier, in order.
RECURSIVE ApplyModifiers(_, _)
ApplyModifiers(mods, upload) ==
    IF mods = <<>>
    THEN upload
    ELSE ApplyModifiers(Tail(mods),
                        IF Head(mods).mod = "WithAppend"
                        THEN WithAppend(upload)
                        ELSE WithDelete(Head(mods).names, upload))

WithFileUpload(field, files, mods, opts) ==
    [opts EXCEPT !.Uploads =
        Append(@, ApplyModifiers(mods, [Field |-> field, Files |-> files,
                                        Append |-> FALSE, Delete |-> <<>>]))]

WithFormData(data, opts) == [opts EXCEPT !.Data = data]

\* options := &FileUploadOptions{}
NoFileUploadOptions == [Uploads |-> <<>>, Data |-> NilData]

\* The FileUploadOption values a caller passes.
OptFileUpload(field, files, mods) ==
    [opt |-> "WithFileUpload", field |-> field, files |-> files, mods |-> mods,
     data |-> NilData]

OptFormData(data) ==
    [opt |-> "WithFormData", field |-> "", files |-> <<>>, mods |-> <<>>, data |-> data]

\* for _, opt := range fileUploads { opt(options) }
RECURSIVE ApplyFileUploadOptions(_, _)
ApplyFileUploadOptions(fileUploads, opts) ==
    IF fileUploads = <<>>
    THEN opts
    ELSE LET o == Head(fileUploads)
         IN ApplyFileUploadOptions(
                Tail(fileUploads),
                IF o.opt = "WithFileUpload"
                THEN WithFileUpload(o.field, o.files, o.mods, opts)
                ELSE WithFormData(o.data, opts))

(***************************************************************************)
(* doMultipartRequest writing the body.  The writer is its error (the     *)
(* first one ends the function), the parts written and the number of       *)
(* calls made on it; failAt is the call of the writer that fails (0: none).*)
(***************************************************************************)
FieldPart(name, value) == [kind |-> "field", name |-> name, value |-> value, filename |-> ""]

FilePart(name, filename) ==
    [kind |-> "file", name |-> name, value |-> "", filename |-> filename]

NewWriter == [err |-> NoErr, parts |-> <<>>, calls |-> 0]

\* fmt.Sprintf("%v", v) of a number.
Sprint(n) == IF n = 7 THEN "7" ELSE "0"

\* "Convert value to string for form field".
FormValue(v) ==
    CASE v.t = "str" -> [ok |-> TRUE, str |-> v.s]
      [] v.t = "num" -> [ok |-> TRUE, str |-> Sprint(v.n)]
      [] v.t = "chan" -> [ok |-> FALSE, str |-> ""]
      [] OTHER -> [ok |-> TRUE, str |-> "{}"]

\* writer.WriteField(name, value); stage names the error of a failure.
WriteField(w, name, value, failAt, stage) ==
    IF w.err.kind # "none"
    THEN w
    ELSE IF w.calls + 1 = failAt
         THEN [w EXCEPT !.err = LocalErr(stage), !.calls = @ + 1]
         ELSE [w EXCEPT !.parts = Append(@, FieldPart(name, value)), !.calls = @ + 1]

\* writer.CreateFormFile(fieldName, file.Filename); io.Copy(part, file.Reader).
WriteFile(w, fieldName, file, failAt) ==
    IF w.err.kind # "none"
    THEN w
    ELSE IF w.calls + 1 = failAt
         THEN [w EXCEPT !.err = LocalErr("create form file"), !.calls = @ + 1]
         ELSE IF ~file.readable
              THEN [w EXCEPT !.err = LocalErr("copy file data"),
                             !.parts = Append(@, FilePart(fieldName, file.Filename)),
                             !.calls = @ + 1]
              ELSE [w EXCEPT !.parts = Append(@, FilePart(fieldName, file.Filename)),
                             !.calls = @ + 1]

\* "Add regular form data fields": the pairs of Data in the order the range
\* over the map yields them.
RECURSIVE WriteData(_, _, _)
WriteData(w, order, failAt) ==
    IF order = <<>> \/ w.err.kind # "none"
    THEN w
    ELSE LET v == FormValue(Head(order)[2])
         IN IF ~v.ok
            THEN [w EXCEPT !.err = LocalErr("marshal form field")]
            ELSE WriteData(WriteField(w, <<Head(order)[1]>>, v.str, failAt,
                                      "write form field"),
                           Tail(order), failAt)

\* "Handle delete operations (fieldname-)".
RECURSIVE WriteDeletes(_, _, _, _)
WriteDeletes(w, deleteFieldName, filenames, failAt) ==
    IF filenames = <<>>
    THEN w
    ELSE WriteDeletes(WriteField(w, deleteFieldName, Head(filenames), failAt,
                                 "write delete field"),
                      deleteFieldName, Tail(filenames), failAt)

\* "Add files".
RECURSIVE WriteFiles(_, _, _, _)
WriteFiles(w, fieldName, files, failAt) ==
    IF files = <<>>
    THEN w
    ELSE WriteFiles(WriteFile(w, fieldName, Head(files), failAt),
                    fieldName, Tail(files), failAt)

\* FileFieldName that ignores the append mode.
FileFieldNameBare(upload) == <<upload.Field>>

\* "Handle append operations (fieldname+)": the name the files are written under.
FileFieldName(upload) ==
    IF upload.Append THEN <<upload.Field>> \o <<"+">> ELSE <<upload.Field>>

\* WriteUpload that attaches the files before it writes the delete fields.
WriteUploadFilesFirst(w, upload, failAt) ==
    WriteDeletes(WriteFiles(w, FileFieldName(upload), upload.Files, failAt),
                 <<upload.Field>> \o <<"-">>, upload.Delete, failAt)

\* One turn of "for _, upload := range fileUploads.Uploads".
WriteUpload(w, upload, failAt) ==
    WriteFiles(WriteDeletes(w, <<upload.Field>> \o <<"-">>, upload.Delete, failAt),
               FileFieldName(upload), upload.Files, failAt)

RECURSIVE WriteUploads(_, _, _)
WriteUploads(w, uploads, failAt) ==
    IF uploads = <<>>
    THEN w
    ELSE WriteUploads(WriteUpload(w, Head(uploads), failAt), Tail(uploads), failAt)

\* writer.Close()
CloseWriter(w, failAt) ==
    IF w.err.kind # "none"
    THEN w
    ELSE IF w.calls + 1 = failAt
         THEN [w EXCEPT !.err = LocalErr("close multipart writer"), !.calls = @ + 1]
         ELSE [w EXCEPT !.calls = @ + 1]

\* The body doMultipartRequest writes for these options, the map yielding its
\* pairs in this order.
MultipartBody(fileUploads, order, failAt) ==
    CloseWriter(WriteUploads(WriteData(NewWriter, order, failAt),
                             fileUploads.Uploads, failAt),
                failAt)

\* The orders in which a range over a map with these pairs can yield them.
Orders(kv) ==
    {q \in [1..Cardinality(kv) -> kv] : \A i, j \in DOMAIN q : q[i] = q[j] => i = j}

(***************************************************************************)
(* The options of NewClient, and the loops that apply a caller's options.  *)
(***************************************************************************)
\* The Option values a caller passes to NewClient.
OptHTTPClient(httpClient) ==
    [opt |-> "WithHTTPClient", httpClient |-> httpClient, timeout |-> 0, userAgent |-> ""]

OptTimeout(timeout) ==
    [opt |-> "WithTimeout", httpClient |-> NilHTTPClient, timeout |-> timeout,
     userAgent |-> ""]

OptUserAgent(userAgent) ==
    [opt |-> "WithUserAgent", httpClient |-> NilHTTPClient, timeout |-> 0,
     userAgent |-> userAgent]

WithHTTPClient(httpClient, c) == [c EXCEPT !.HTTPClient = httpClient]

\* WithTimeout that sets the timeout of the transport handle already installed.
WithTimeoutInPlace(timeout, c) == [c EXCEPT !.HTTPClient.Timeout = timeout]

\* c.HTTPClient = &http.Client{Timeout: timeout}
WithTimeout(timeout, c) ==
    [c EXCEPT !.HTTPClient = HTTPClientOf("WithTimeout", timeout)]

WithUserAgent(userAgent, c) == [c EXCEPT !.userAgent = userAgent]

\* for _, opt := range opts { opt(client) }
RECURSIVE ApplyOptions(_, _)
ApplyOptions(opts, c) ==
    IF opts = <<>>
    THEN c
    ELSE LET o == Head(opts)
         IN ApplyOptions(Tail(opts),
                CASE o.opt = "WithHTTPClient" -> WithHTTPClient(o.httpClient, c)
                  [] o.opt = "WithTimeout" -> WithTimeout(o.timeout, c)
                  [] OTHER -> WithUserAgent(o.userAgent, c))

\* The ListOption and QueryOption values a caller passes: the option, and its
\* argument by type.
OptInt(opt, n) == [opt |-> opt, n |-> n, s |-> "", fields |-> <<>>]

OptString(opt, str) == [opt |-> opt, n |-> 0, s |-> str, fields |-> <<>>]

OptStrings(opt, fields) == [opt |-> opt, n |-> 0, s |-> "", fields |-> fields]

\* for _, opt := range opts { opt(options) } of GetAllRecords
RECURSIVE ApplyListOptions(_, _)
ApplyListOptions(optList, opts) ==
    IF optList = <<>>
    THEN opts
    ELSE LET o == Head(optList)
         IN ApplyListOptions(Tail(optList),
                CASE o.opt = "WithPage" -> WithPage(o.n, opts)
                  [] o.opt = "WithPerPage" -> WithPerPage(o.n, opts)
                  [] o.opt = "WithSort" -> WithSort(o.s, opts)
                  [] o.opt = "WithFilter" -> WithFilter(o.s, opts)
                  [] o.opt = "WithListExpand" -> WithListExpand(o.fields, opts)
                  [] OTHER -> WithListFields(o.fields, opts))

\* options := &QueryOptions{}
NoQueryOptions == [Expand |-> <<>>, Fields |-> <<>>]

WithExpand(fields, opts) == [opts EXCEPT !.Expand = fields]

WithFields(fields, opts) == [opts EXCEPT !.Fields = fields]

\* for _, opt := range opts { opt(options) } of GetRecord, CreateRecord and
\* UpdateRecord
RECURSIVE ApplyQueryOptions(_, _)
ApplyQueryOptions(optList, opts) ==
    IF optList = <<>>
    THEN opts
    ELSE LET o == Head(optList)
         IN ApplyQueryOptions(Tail(optList),
                IF o.opt = "WithExpand"
                THEN WithExpand(o.fields, opts)
                ELSE WithFields(o.fields, opts))

\* "Build query parameters" of GetRecord, CreateRecord and UpdateRecord.
RecordQuery(opts) ==
    [NoQuery EXCEPT
        !.expand = IF Len(opts.Expand) > 0
                   THEN [set |-> TRUE, val |-> Join(opts.Expand)]
                   ELSE [set |-> FALSE, val |-> <<>>],
        !.fields = IF Len(opts.Fields) > 0
                   THEN [set |-> TRUE, val |-> Join(opts.Fields)]
                   ELSE [set |-> FALSE, val |-> <<>>]]

\* The options struct an operation builds from the caller's options.
OpOptions(c) ==
    CASE c.op = "GetAllRecords" -> ApplyListOptions(c.listOpts, DefaultListOptions)
      [] c.op \in JsonRecordOps -> ApplyQueryOptions(c.queryOpts, NoQueryOptions)
      [] c.op \in FileOps -> ApplyFileUploadOptions(c.fileUploads, NoFileUploadOptions)
      [] OTHER -> NoOptions

\* The query parameters and the page of the operation's (first) request.
OpQuery(c) ==
    CASE c.op = "GetAllRecords" -> ListQuery(OpOptions(c))
      [] c.op \in JsonRecordOps -> RecordQuery(OpOptions(c))
      [] OTHER -> NoQuery

OpPage(c) == IF c.op = "GetAllRecords" THEN FirstPage(OpOptions(c)) ELSE 0

(***************************************************************************)
(* The calls of the check.                                                 *)
(***************************************************************************)
AllOps == AuthOps \cup RecordOps \cup {"Impersonate", "GetAllRecords"}

FileLists ==
    {<<>>, <<FileData("c.pdf", TRUE)>>,
     <<FileData("c.pdf", TRUE), FileData("d.pdf", TRUE)>>,
     <<FileData("c.pdf", TRUE), FileData("e.pdf", FALSE)>>}

ModifierLists ==
    {<<>>, <<ModAppend>>, <<ModDelete(<<"a.png", "b.png">>)>>,
     <<ModAppend, ModDelete(<<"a.png", "b.png">>)>>,
     <<ModDelete(<<"b.png", "a.png">>), ModAppend>>,
     <<ModDelete(<<"a.png">>), ModDelete(<<"b.png">>)>>,
     <<ModDelete(<<>>)>>}

DataChoices ==
    {NilData,
     DataOf({<<"title", Str("hello")>>}),
     DataOf({<<"title", Str("hello")>>, <<"count", Num(7)>>}),
     DataOf({<<"meta", Obj("detail")>>, <<"ch", Chan>>})}

FileUploadOptionChoices ==
    {OptFileUpload(f, fs, ms) : f \in {"avatar", "files"}, fs \in FileLists,
                                ms \in ModifierLists}
        \cup {OptFormData(d) : d \in DataChoices}

\* The option lists a caller passes: none, one or two options.
FileUploadOptionLists ==
    {<<>>} \cup {<<o>> : o \in FileUploadOptionChoices}
           \cup {<<o1, o2>> : o1, o2 \in FileUploadOptionChoices}

\* The calls of the writer that can fail.
FailPoints == {0, 1, 2, 3}

\* A transport handle the caller made.
CustomHTTPClient == HTTPClientOf("custom", 5)

ClientOptionChoices ==
    {OptHTTPClient(CustomHTTPClient), OptTimeout(5), OptTimeout(10),
     OptUserAgent("MyApp/1.0"), OptUserAgent("TestClient/1.0")}

ListOptionValues ==
    {OptInt("WithPage", 2), OptInt("WithPage", 3),
     OptInt("WithPerPage", 50), OptInt("WithPerPage", 0),
     OptString("WithSort", "-created"), OptString("WithSort", "title"),
     OptString("WithFilter", "a=1"), OptString("WithFilter", "b=2"),
     OptStrings("WithListExpand", <<"author", "tags">>), OptStrings("WithListExpand", <<>>),
     OptStrings("WithListFields", <<"id">>), OptStrings("WithListFields", <<"id", "title">>)}

QueryOptionValues ==
    {OptStrings("WithExpand", <<"author", "tags">>), OptStrings("WithExpand", <<"author">>),
     OptStrings("WithExpand", <<>>),
     OptStrings("WithFields", <<"id">>), OptStrings("WithFields", <<"id", "title">>)}

\* NewClient options that install two transport handles around a user agent.
MixedOptions == <<OptHTTPClient(CustomHTTPClient), OptUserAgent("MyApp/1.0"), OptTimeout(10)>>

DefaultCall ==
    [baseURL |-> <<"h">>, op |-> "GetRecord", duration |-> 0, marshals |-> TRUE,
     fileUploads |-> <<>>, failAt |-> 0, opts |-> <<>>, listOpts |-> <<>>,
     queryOpts |-> <<>>]

BuildCalls ==
    {[DefaultCall EXCEPT !.baseURL = b, !.op = o] : b \in BaseURLs, o \in AllOps}
        \cup {[DefaultCall EXCEPT !.op = "Impersonate", !.duration = d] : d \in Durations}
        \cup {[DefaultCall EXCEPT !.op = o, !.marshals = m] :
                o \in {"CreateRecord", "UpdateRecord"}, m \in BOOLEAN}
        \cup {[DefaultCall EXCEPT !.op = o, !.fileUploads = f, !.failAt = k] :
                o \in FileOps, f \in FileUploadOptionLists, k \in FailPoints}
        \cup {[DefaultCall EXCEPT !.opts = os] : os \in SeqsUpTo(ClientOptionChoices, MaxOpts)}
        \cup {[DefaultCall EXCEPT !.op = "GetAllRecords", !.opts = MixedOptions,
                                  !.listOpts = ls] :
                ls \in SeqsUpTo(ListOptionValues, MaxOpts)}
        \cup {[DefaultCall EXCEPT !.op = o, !.queryOpts = qs] :
                o \in JsonRecordOps, qs \in SeqsUpTo(QueryOptionValues, MaxOpts)}

InitBuild ==
    /\ InitClientIdle
    /\ InitHandleIdle
    /\ InitStoreIdle
    /\ InitErrorsIdle
    /\ call \in BuildCalls
    /\ client = NoClient
    /\ built = NoBuilt
    /\ wire = <<>>

\* NewClient(baseURL, opts...).
NewClient ==
    /\ ~client.made
    /\ client' = ApplyOptions(call.opts,
                              [made |-> TRUE, BaseURL |-> TrimSuffix(call.baseURL),
                               HTTPClient |-> HTTPClientOf("NewClient", 0),
                               userAgent |-> "pocketbase-go/1.0"])
    /\ UNCHANGED <<call, built, wire, clientVars, handleVars, storeVars, errVars>>

\* The operation from its first line, and doRequest from its first line to
\* http.NewRequestWithContext.
BuildJSON(c, cl) ==
    LET body == OpBody(c)
    IN IF ~body.nil /\ ~c.marshals
       THEN [done |-> TRUE, err |-> LocalErr("marshal request body"),
             req |-> NoBuiltRequest, order |-> <<>>, options |-> OpOptions(c)]
       ELSE [done |-> TRUE, err |-> NoErr,
             req |-> [method |-> Method(c.op),
                      url |-> cl.BaseURL \o Endpoint(c.op),
                      body |-> IF body.nil THEN NoBody ELSE Marshal(body),
                      query |-> OpQuery(c), page |-> OpPage(c)],
             order |-> <<>>, options |-> OpOptions(c)]

\* doMultipartRequest from its first line to http.NewRequestWithContext, for the
\* options the operation built from the caller's.
BuildMultipart(c, cl, order) ==
    LET w == MultipartBody(ApplyFileUploadOptions(c.fileUploads, NoFileUploadOptions),
                           order, c.failAt)
    IN IF w.err.kind # "none"
       THEN [done |-> TRUE, err |-> w.err, req |-> NoBuiltRequest, order |-> order,
             options |-> OpOptions(c)]
       ELSE [done |-> TRUE, err |-> NoErr,
             req |-> [method |-> Method(c.op),
                      url |-> cl.BaseURL \o Endpoint(c.op),
                      body |-> [kind |-> "multipart", keys |-> {}, duration |-> 0,
                                parts |-> w.parts],
                      query |-> NoQuery, page |-> 0],
             order |-> order, options |-> OpOptions(c)]

\* The operation is called and builds its request, or fails to.
BuildRequest ==
    /\ client.made
    /\ ~built.done
    /\ IF IsMultipart(call.op)
       THEN \E order \in Orders(ApplyFileUploadOptions(call.fileUploads,
                                                       NoFileUploadOptions).Data.kv) :
                built' = BuildMultipart(call, client, order)
       ELSE built' = BuildJSON(call, client)
    /\ UNCHANGED <<call, client, wire, clientVars, handleVars, storeVars, errVars>>

\* CanDo of a transport call made whether or not the request was built.
CanDoAlways(b) == b.done

\* doRequest / doMultipartRequest reach HTTPClient.Do only past every
\* "return fmt.Errorf" above it.
CanDo(b) == b.done /\ b.err.kind = "none"

\* c.HTTPClient.Do(req)
Do ==
    /\ CanDo(built)
    /\ wire = <<>>
    /\ wire' = Append(wire, built.req)
    /\ UNCHANGED <<call, client, built, clientVars, handleVars, storeVars, errVars>>

NextBuild ==
    \/ NewClient
    \/ BuildRequest
    \/ Do

SpecBuild == InitBuild /\ [][NextBuild]_vars

(***************************************************************************)
(* Properties.                                                             *)
(***************************************************************************)
Is2xx(code) == code >= 200 /\ code < 300

\* A response to an authentication request that makes the call fail: a transport
\* failure, a non-2xx status, or a 2xx body that does not decode.
AuthFails(r) ==
    \/ r.kind = "neterr"
    \/ ~Is2xx(r.code)
    \/ ~DecodeAuthResp(r.body).ok

\* C1: when an authentication call receives a 2xx response that decodes, it goes
\* on to store the token, and the step that stores it leaves the stored token
\* equal to the response's token field (whatever was stored before) and returns
\* the response's record field with no error.
C1_AuthStoresResponseToken ==
    [][\A p \in Callers :
        /\ (op[p] \in AuthOps /\ pc[p] = "wait" /\ pc'[p] # "wait" /\ ~AuthFails(last'[p]))
              => pc'[p] = "store"
        /\ (pc[p] = "store" /\ pc'[p] # "store")
              => /\ pc'[p] = "done"
                 /\ token' = StrField(last[p].body.f["token"])
                 /\ out'[p].err = NoErr
                 /\ out'[p].val.Record = MapField(last[p].body.f["record"])]_vars

\* C1 witness: an authentication sent with the token t1 has succeeded, and the
\* stored token is now the response's token t2.
C1_Witness ==
    /\ pc["a"] = "done"
    /\ op["a"] = "AuthenticateWithPassword"
    /\ out["a"].err.kind = "none"
    /\ out["a"].val.Record = "user"
    /\ req["a"].auth.val = "t1"
    /\ last["a"].body.f["token"] = Str("t2")
    /\ token = "t2"

\* C2: when an authentication call receives a failing response it ends at once,
\* returning an error (an API error for a non-2xx response, a local error
\* otherwise) and no record, and no step of an authentication call other than
\* the store after a success changes the stored token.
C2_AuthFailureKeepsToken ==
    [][\A p \in Callers :
        /\ (op[p] \in AuthOps /\ pc[p] = "wait" /\ pc'[p] # "wait" /\ AuthFails(last'[p]))
              => /\ pc'[p] = "done"
                 /\ out'[p].err.kind =
                        IF last'[p].kind = "http" /\ ~Is2xx(last'[p].code)
                        THEN "api" ELSE "local"
                 /\ out'[p].val = NoVal
                 /\ token' = token
        /\ ((op[p] \in AuthOps \/ op'[p] \in AuthOps) /\ pc'[p] # pc[p] /\ pc[p] # "store")
              => token' = token]_vars

\* C2 witness: an authentication failed with an API error while the token t1 was
\* stored, and t1 is still stored.
C2_Witness ==
    /\ pc["a"] = "done"
    /\ op["a"] = "AuthenticateAsSuperuser"
    /\ out["a"].err.kind = "api"
    /\ out["a"].val.Record = NilRec
    /\ req["a"].auth.val = "t1"
    /\ token = "t1"

\* C3: a step changes the stored token only if it is a SetToken call or the
\* store of a successful password authentication; Impersonate, the record
\* operations and the transport never change it.
C3_TokenWrittenOnlyBySetTokenAndAuth ==
    [][token' # token =>
        \E p \in Callers :
            \/ pc[p] = "idle" /\ op'[p] = "SetToken"
            \/ pc[p] = "store" /\ op[p] \in AuthOps /\ pc'[p] = "done"]_vars

\* C3 witness: an impersonation has returned the token t2 in its result while
\* the stored token is still t1.
C3_Witness ==
    /\ pc["a"] = "done"
    /\ op["a"] = "Impersonate"
    /\ out["a"].err.kind = "none"
    /\ out["a"].val.Token = "t2"
    /\ req["a"].auth.val = "t1"
    /\ token = "t1"

\* The items of a sequence of decoded list responses, concatenated in order.
RECURSIVE Concat(_)
Concat(resps) ==
    IF resps = <<>> THEN <<>> ELSE Head(resps).Items \o Concat(Tail(resps))

\* The page numbers 1..n in order.
Pages(n) == [i \in 1..n |-> i]

\* Every response of the call reported n total pages.
Reported(resps, n) == \A i \in 1..Len(resps) : resps[i].TotalPages = n

\* A GetAllRecords call of p that ran the loop and returned without error.
LoopDone(p) ==
    /\ pc[p] = "done"
    /\ op[p] = "GetAllRecords"
    /\ given[p].Page <= 1
    /\ out[p].err.kind = "none"

\* C4 as claimed: when the server reports N total pages and no page above 1 was
\* requested, GetAllRecords issues the requests for pages 1..N, exactly, and
\* returns the pages' items concatenated in order.
C4_ExactlyNRequests ==
    \A p \in Callers : \A n \in 0..MaxPages :
        (LoopDone(p) /\ Reported(got[p], n))
            => /\ sent[p] = Pages(n)
               /\ Len(got[p]) = n
               /\ out[p].val.Items = Concat(got[p])

\* C4 amended: the same for N >= 1; when the server reports 0 total pages,
\* GetAllRecords still issues the request for page 1, and only that one, and
\* returns that page's items.
C4_MaxOneNRequests ==
    \A p \in Callers : \A n \in 0..MaxPages :
        (LoopDone(p) /\ Reported(got[p], n))
            => LET m == IF n >= 1 THEN n ELSE 1
               IN /\ sent[p] = Pages(m)
                  /\ Len(got[p]) = m
                  /\ out[p].val.Items = Concat(got[p])

\* C4 witness: a server reporting 3 total pages, two items a page: three
\* requests were sent and the six items are returned in order.
C4_Witness ==
    /\ LoopDone("a")
    /\ Reported(got["a"], 3)
    /\ sent["a"] = <<1, 2, 3>>
    /\ out["a"].val.Items = <<11, 12, 21, 22, 31, 32>>

\* C5: a GetAllRecords call whose options ask for a page above 1 sends one
\* request, for that page, and sends no other; when it returns without error its
\* result is the items of that one response.
C5_ExplicitPageOnly ==
    \A p \in Callers :
        (op[p] = "GetAllRecords" /\ given[p].Page > 1)
            => /\ sent[p] = <<given[p].Page>>
               /\ req[p].page = given[p].Page
               /\ pc[p] \in {"wait", "done"}
               /\ (pc[p] = "done" /\ out[p].err.kind = "none")
                     => /\ Len(got[p]) = 1
                        /\ out[p].val.Items = got[p][1].Items

\* C5 witness: page 2 was requested, the server reported 3 total pages, and the
\* call returned the two items of page 2 after one request.
C5_Witness ==
    /\ pc["a"] = "done"
    /\ op["a"] = "GetAllRecords"
    /\ given["a"].Page = 2
    /\ sent["a"] = <<2>>
    /\ out["a"].err.kind = "none"
    /\ Len(got["a"]) = 1
    /\ got["a"][1].TotalPages = 3
    /\ out["a"].val.Items = <<21, 22>>

\* A response to a list request that makes the fetch fail.
ListFails(r) ==
    \/ r.kind = "neterr"
    \/ ~Is2xx(r.code)
    \/ ~DecodeListResp(r.body).ok

\* C6: when the loop of GetAllRecords receives a failing response for page k, the
\* call ends in that step with the error of that response and no records, the
\* requests sent are those for pages 1..k, k - 1 pages were fetched, and a call
\* that has ended sends nothing more.
C6_PageFailureEndsCall ==
    [][\A p \in Callers :
        /\ (/\ op[p] = "GetAllRecords"
            /\ pc[p] = "loop"
            /\ (pc'[p] # "loop" \/ sent'[p] # sent[p])
            /\ ListFails(last'[p]))
              => /\ pc'[p] = "done"
                 /\ out'[p].err.kind =
                        IF last'[p].kind = "http" /\ ~Is2xx(last'[p].code)
                        THEN "api" ELSE "local"
                 /\ out'[p].val = NoVal
                 /\ sent'[p] = sent[p]
                 /\ sent[p] = Pages(page[p])
                 /\ Len(got'[p]) = page[p] - 1
        /\ pc[p] = "done" => Len(sent'[p]) <= Len(sent[p])]_vars

\* C6 witness: page 2 failed with an API error after page 1 gave two items; the
\* call returned the error and no items after two requests.
C6_Witness ==
    /\ pc["a"] = "done"
    /\ op["a"] = "GetAllRecords"
    /\ out["a"].err.kind = "api"
    /\ out["a"].val.Items = <<>>
    /\ allRecords["a"] = <<11, 12>>
    /\ sent["a"] = <<1, 2>>

\* A body that is a well-formed error payload: an object with a numeric status,
\* a string message and, if it has data at all, an object as data.
WellFormedError(body) ==
    /\ body.syn = "ok"
    /\ body.top = "obj"
    /\ body.f["status"].t = "num"
    /\ body.f["message"].t = "str"
    /\ body.f["data"].t \in {"obj", "absent", "null"}

\* The transport was handed a response with a status outside [200,300).
HandledNon2xx ==
    /\ output.done
    /\ input.r.kind = "http"
    /\ ~Is2xx(input.r.code)

\* C7: for a response outside [200,300), on either path, the transport returns
\* an API error: with the body's status, message and data when the body is a
\* well-formed error payload, with the HTTP status code, the status text and no
\* data when the body is not valid JSON.
C7_Non2xxIsAPIError ==
    HandledNon2xx
        => LET body == input.r.body
               err == output.res.err
           IN /\ err.kind = "api"
              /\ output.res.val = NoVal
              /\ WellFormedError(body)
                    => /\ err.Status = body.f["status"].n
                       /\ err.Message = body.f["message"].s
                       /\ err.Data = IF body.f["data"].t = "obj"
                                     THEN body.f["data"].s ELSE NilRec
              /\ body.syn = "bad"
                    => /\ err.Status = input.r.code
                       /\ err.Message = StatusText(input.r.code)
                       /\ err.Data = NilRec

\* C7 witness: a 404 whose body is not JSON became the API error 404 with the
\* status text, and the destination was left alone.
C7_Witness ==
    /\ HandledNon2xx
    /\ ~input.multipart
    /\ input.r = Http(404, BadBody)
    /\ output.res.err = APIError(404, "404 Not Found", NilRec)

\* A body that is valid JSON and not of the error shape: not an object, or an
\* object whose status is not a number or whose message is not a string.
NotErrorShape(body) ==
    /\ body.syn = "ok"
    /\ \/ body.top # "obj"
       \/ body.f["status"].t # "num"
       \/ body.f["message"].t # "str"

\* C8 as claimed: a non-2xx response whose body is valid JSON that does not
\* match the error shape gives the API error with the HTTP status code, the
\* status text and no data.
C8_WrongShapeFallsBack ==
    (HandledNon2xx /\ NotErrorShape(input.r.body))
        => output.res.err = APIError(input.r.code, StatusText(input.r.code), NilRec)

\* The values a reader may see whole: the initial "" and the arguments of the
\* SetToken calls so far.
WholeValues == {Words(t) : t \in written \cup {""}}

WriterInside(g) == tpc[g] \in {"write", "wrotePtr", "wroteLen", "Unlock"}

ReaderInside(g) == tpc[g] \in {"read", "readPtr", "readLen", "RUnlock"}

\* C9: every value GetToken returns is the initial "" or the whole argument of
\* some SetToken; at most one writer is inside the critical section, and no
\* reader is inside with it; and a GetToken that began when no SetToken was under
\* way, and that no SetToken overlapped, returns the argument of the SetToken that
\* returned last.
C9_TokenStoreAtomic ==
    /\ \A g \in Goroutines : tpc[g] = "ret" => tret[g] \in WholeValues
    /\ Cardinality({g \in Goroutines : WriterInside(g)}) <= 1
    /\ (\E g \in Goroutines : WriterInside(g)) => ~(\E h \in Goroutines : ReaderInside(h))
    /\ \A g \in Goroutines : (tpc[g] = "ret" /\ snap[g] # Unknown) => tret[g] = snap[g]

\* C9 witness: after SetToken("t1") and then SetToken("t2") returned, a GetToken
\* returns t2 while a second reader is inside and a writer waits for the lock.
C9_Witness ==
    /\ written = {"t1", "t2"}
    /\ lastSet = "t2"
    /\ tpc["g1"] = "ret"
    /\ snap["g1"] = Words("t2")
    /\ tret["g1"] = Words("t2")
    /\ tpc["g2"] = "readPtr"
    /\ tpc["g3"] = "Lock"

\* C10: every step that sends a request, on the JSON path or the multipart path,
\* sets the Authorization header exactly when the stored token is non-empty at
\* that step, and then to that token.
C10_AuthorizationIffToken ==
    [][\A p \in Callers :
        Len(sent'[p]) > Len(sent[p])
            => /\ req'[p].auth.has <=> token # ""
               /\ req'[p].auth.has => req'[p].auth.val = token]_vars

\* C10 witness: a multipart request in flight with the header set to t1, and a
\* JSON request in flight without the header.
C10_Witness ==
    /\ pc["a"] = "wait"
    /\ req["a"].ctype = "multipart/form-data"
    /\ req["a"].auth = [has |-> TRUE, val |-> "t1"]
    /\ pc["b"] = "wait"
    /\ req["b"].ctype = "application/json"
    /\ ~req["b"].auth.has

\* C11: each of IsNotFound, IsUnauthorized, IsForbidden and IsBadRequest is true
\* exactly when the error's status is 404, 401, 403 and 400 respectively, and
\* for no status are two of them true.
C11_HelpersMatchStatus ==
    helpers.done =>
        /\ helpers.IsNotFound <=> (apiErr.Status = 404)
        /\ helpers.IsUnauthorized <=> (apiErr.Status = 401)
        /\ helpers.IsForbidden <=> (apiErr.Status = 403)
        /\ helpers.IsBadRequest <=> (apiErr.Status = 400)
        /\ Cardinality({h \in {"IsNotFound", "IsUnauthorized", "IsForbidden",
                                "IsBadRequest"} : helpers[h]}) <= 1

\* The helpers were called on a 404 and on nothing else did IsNotFound say yes.
C11_Witness ==
    /\ helpers.done
    /\ apiErr.Status = 404
    /\ helpers.IsNotFound
    /\ ~helpers.IsBadRequest

\* The upload directives of the call, in the order the caller passed them.
Directives == SelectSeq(call.fileUploads, LAMBDA o : o.opt = "WithFileUpload")

\* The delete-list a directive is left with: that of its last WithDelete.
RECURSIVE DeleteListOf(_)
DeleteListOf(mods) ==
    IF mods = <<>>
    THEN <<>>
    ELSE IF mods[Len(mods)].mod = "WithDelete"
         THEN mods[Len(mods)].names
         ELSE DeleteListOf(SubSeq(mods, 1, Len(mods) - 1))

AppendSet(mods) == \E i \in DOMAIN mods : mods[i].mod = "WithAppend"

\* The number of parts written before directive i: the form data fields and
\* the parts of the directives before it.
RECURSIVE Offset(_)
Offset(i) ==
    IF i = 1
    THEN Len(built.order)
    ELSE Offset(i - 1) + Len(DeleteListOf(Directives[i - 1].mods))
                       + Len(Directives[i - 1].files)

\* A multipart operation built its request.
BuiltMultipart == built.done /\ built.err.kind = "none" /\ IsMultipart(call.op)

\* C12: the directives are encoded in the order the caller supplied them; each
\* directive's part of the body is one <field>- form field per delete-list
\* filename, in list order with the filename as value, followed by its file
\* parts in file order, and nothing else (so a directive with a delete-list
\* and no files has no file part).
C12_UploadsInCallerOrder ==
    BuiltMultipart =>
        LET parts == built.req.body.parts
            n == Len(Directives)
        IN /\ Len(parts) = Offset(n + 1)
           /\ \A i \in 1..n :
                LET d == Directives[i]
                    del == DeleteListOf(d.mods)
                IN /\ \A j \in 1..Len(del) :
                        /\ parts[Offset(i) + j].kind = "field"
                        /\ parts[Offset(i) + j].name = <<d.field, "-">>
                        /\ parts[Offset(i) + j].value = del[j]
                   /\ \A j \in 1..Len(d.files) :
                        /\ parts[Offset(i) + Len(del) + j].kind = "file"
                        /\ parts[Offset(i) + Len(del) + j].name[1] = d.field
                        /\ parts[Offset(i) + Len(del) + j].filename = d.files[j].Filename

\* A request went out for two directives: the first has a delete-list of two
\* names and no files, the second a delete-list and two files.
C12_Witness ==
    /\ BuiltMultipart
    /\ wire = <<built.req>>
    /\ Len(Directives) = 2
    /\ Directives[1].files = <<>>
    /\ DeleteListOf(Directives[1].mods) = <<"a.png", "b.png">>
    /\ Len(Directives[2].files) = 2
    /\ DeleteListOf(Directives[2].mods) = <<"b.png", "a.png">>
    /\ Len(built.req.body.parts) = 6

\* C13: every file of a directive is written under <field>+ when the directive
\* has append set and under the bare <field> when it has not, and its delete
\* entries are written under <field>- in both cases.
C13_AppendDeleteOrthogonal ==
    BuiltMultipart =>
        \A i \in 1..Len(Directives) :
            LET d == Directives[i]
                del == DeleteListOf(d.mods)
                parts == built.req.body.parts
            IN /\ \A j \in 1..Len(d.files) :
                    parts[Offset(i) + Len(del) + j].name =
                        IF AppendSet(d.mods) THEN <<d.field, "+">> ELSE <<d.field>>
               /\ \A j \in 1..Len(del) :
                    parts[Offset(i) + j].name = <<d.field, "-">>

\* A request went out for a directive with append set, a delete-list and a file.
C13_Witness ==
    /\ BuiltMultipart
    /\ wire = <<built.req>>
    /\ \E i \in 1..Len(Directives) :
        /\ AppendSet(Directives[i].mods)
        /\ Len(DeleteListOf(Directives[i].mods)) = 2
        /\ Len(Directives[i].files) >= 1
        /\ built.req.body.parts[Offset(i) + 3].name = <<Directives[i].field, "+">>

\* C14: the request Impersonate builds has a body with the duration key, set
\* to the duration argument, when the argument is above 0, and has no body at
\* all when it is 0 or negative.
C14_DurationIffPositive ==
    (built.done /\ call.op = "Impersonate") =>
        /\ built.err.kind = "none"
        /\ IF call.duration > 0
           THEN /\ built.req.body.kind = "json"
                /\ built.req.body.keys = {"duration"}
                /\ built.req.body.duration = call.duration
           ELSE built.req.body = NoBody

\* Impersonate with duration 3600 sent a body with duration 3600.
C14_Witness ==
    /\ call.op = "Impersonate"
    /\ call.duration = 3600
    /\ wire = <<built.req>>
    /\ wire[1].body.duration = 3600

HasTrailingSlash(s) == Len(s) > 0 /\ s[Len(s)] = "/"

\* C15: the base URL NewClient stores has no trailing slash, is the given URL
\* when that has no trailing slash, and every request URL is the stored base
\* URL followed directly by the endpoint.
C15_BaseURLNormalized ==
    client.made =>
        /\ ~HasTrailingSlash(client.BaseURL)
        /\ ~HasTrailingSlash(call.baseURL) => client.BaseURL = call.baseURL
        /\ (built.done /\ built.err.kind = "none") =>
                built.req.url = client.BaseURL \o Endpoint(call.op)

\* C17: when a multipart operation fails to build its body, the error is a
\* local one and no request is handed to the transport.
C17_BuildFailureSendsNothing ==
    (built.done /\ IsMultipart(call.op) /\ built.err.kind # "none") =>
        /\ built.err.kind = "local"
        /\ wire = <<>>

\* Streaming a file failed after a delete field had been written.
C17_Witness ==
    /\ built.done
    /\ IsMultipart(call.op)
    /\ built.err = LocalErr("copy file data")
    /\ wire = <<>>
    /\ Len(Directives) >= 1

\* C16: for the same token, user agent, status and body the multipart path and
\* the JSON path return the same outcome, and set the same Accept, User-Agent
\* and Authorization headers; of the headers only Content-Type differs.
C16_PathsHandleAlike ==
    (output.done /\ input.r.kind = "http") =>
        LET j == doRequestHeaders(input.userAgent, input.token)
            m == doMultipartRequestHeaders(input.userAgent, input.token)
        IN /\ output.res = doRequestResponse(input.r.code, input.r.body, input.target)
           /\ output.res =
                  doMultipartRequestResponse(input.r.code, input.r.body, input.target)
           /\ output.headers = IF input.multipart THEN m ELSE j
           /\ j.Accept = m.Accept
           /\ j.UserAgent = m.UserAgent
           /\ j.Authorization = m.Authorization
           /\ j.ContentType # m.ContentType

\* The multipart path, with a token stored, handled a 500 that is not JSON.
C16_Witness ==
    /\ output.done
    /\ input.multipart
    /\ input.token = "t1"
    /\ input.r = Http(500, BadBody)
    /\ output.res.err = APIError(500, "500 Internal Server Error", NilRec)
    /\ output.headers.Authorization = [has |-> TRUE, val |-> "t1"]

\* C18: for a 2xx response, with no destination the body is not decoded and the
\* call succeeds; with a destination a body that does not decode gives a local
\* error, never an API error.
C18_SuccessDecode ==
    (output.done /\ input.r.kind = "http" /\ Is2xx(input.r.code)) =>
        /\ input.target = "nil" => output.res = NoOut
        /\ (input.target # "nil" /\ ~DecodeOut(input.target, input.r.body).ok)
                => output.res = [err |-> LocalErr("decode"), val |-> NoVal]
        /\ (input.target # "nil" /\ input.r.body.syn = "bad")
                => output.res.err.kind = "local"
        /\ output.res.err.kind # "api"

\* A 200 whose body is not JSON was handled on the JSON path with a Record as
\* destination, and on its own with no destination.
C18_Witness ==
    /\ output.done
    /\ ~input.multipart
    /\ input.r = Http(200, BadBody)
    /\ input.target = "Record"
    /\ output.res.err = LocalErr("decode")

\* The operations that make one request per call.
SingleRequestOps == AuthOps \cup RecordOps \cup {"Impersonate"}

\* Caller p's call takes a step.
Steps(p) ==
    \/ pc'[p] # pc[p]
    \/ sent'[p] # sent[p]
    \/ last'[p] # last[p]
    \/ got'[p] # got[p]
    \/ out'[p] # out[p]

\* C19: once the context of a GetAllRecords call is cancelled or past its
\* deadline after page k was fetched, the next step of the call ends it: no
\* further page is fetched or asked for, no records are returned, and the error
\* is the local error that wraps the context's error, not an API error.
C19_CancelBetweenPages ==
    [][\A p \in FullCallers :
        (/\ op[p] = "GetAllRecords"
         /\ pc[p] = "loop"
         /\ Len(got[p]) >= 1
         /\ ctx[p] # "live"
         /\ Steps(p))
        => /\ pc'[p] = "done"
           /\ got'[p] = got[p]
           /\ sent'[p] = sent[p]
           /\ out'[p].val = NoVal
           /\ out'[p].err.kind = "local"
           /\ out'[p].err.cause = ctx[p]
           /\ out'[p].err.cause \in CtxErrs]_vars

\* The deadline passed after the second page; the call ended with the error,
\* having fetched two pages and asked for the third.
C19_Witness ==
    /\ op["a"] = "GetAllRecords"
    /\ pc["a"] = "done"
    /\ ctx["a"] = "context deadline exceeded"
    /\ Len(got["a"]) = 2
    /\ sent["a"] = <<1, 2, 3>>
    /\ out["a"] = [err |-> WrappedErr("execute", "context deadline exceeded"),
                   val |-> NoVal]

\* C20: a call of an authentication, impersonation or record operation never
\* has more than one request behind it, and has exactly one when it ends on a
\* response: a 401 is returned as it is, with no second request.
C20_AtMostOneRequest ==
    \A p \in Callers :
        op[p] \in SingleRequestOps =>
            /\ Len(sent[p]) <= 1
            /\ (pc[p] = "done" /\ last[p].kind = "http" /\ last[p].code = 401)
                    => /\ Len(sent[p]) = 1
                       /\ out[p].err.kind = "api"
                       /\ out[p].err.Status = 401

\* CreateRecord got a 401 and returned it after its one request.
C20_Witness ==
    /\ op["a"] = "CreateRecord"
    /\ pc["a"] = "done"
    /\ last["a"] = Http(401, ErrBody(401))
    /\ Len(sent["a"]) = 1
    /\ out["a"].err = APIError(401, "server message", "detail")

ExpectedQuery(g) ==
    [perPage |-> [set |-> g.PerPage > 0, val |-> IF g.PerPage > 0 THEN g.PerPage ELSE 0],
     sort |-> [set |-> g.Sort # "", val |-> g.Sort],
     filter |-> [set |-> g.Filter # "", val |-> g.Filter],
     expand |-> [set |-> g.Expand # <<>>,
                 val |-> IF g.Expand = <<"author", "tags">>
                         THEN <<"author", ",", "tags">> ELSE g.Expand],
     fields |-> [set |-> g.Fields # <<>>, val |-> g.Fields]]

\* C22: every step of a GetAllRecords call that sends a page request sends it
\* with page equal to the page counter and with the perPage, sort, filter,
\* expand and fields the caller's options say, the same on every iteration;
\* what the caller did not set is not in the query.
C22_SameQueryEveryPage ==
    [][\A p \in FullCallers :
        (op'[p] = "GetAllRecords" /\ sent'[p] # sent[p] /\ sent'[p] # <<>>)
            => /\ req'[p].page = page'[p]
               /\ req'[p].page = sent'[p][Len(sent'[p])]
               /\ req'[p].query = ExpectedQuery(given'[p])
               /\ given'[p].PerPage = 30 => req'[p].query.perPage = [set |-> TRUE, val |-> 30]
               /\ (sent[p] # <<>>) => req'[p].query = req[p].query]_vars

\* The second page of a traversal with perPage 50, a sort, a filter, two expand
\* fields and one field was asked for.
C22_Witness ==
    /\ op["a"] = "GetAllRecords"
    /\ pc["a"] = "loop"
    /\ sent["a"] = <<1, 2>>
    /\ req["a"].page = 2
    /\ req["a"].query.perPage = [set |-> TRUE, val |-> 50]
    /\ req["a"].query.sort = [set |-> TRUE, val |-> "-created"]
    /\ req["a"].query.filter = [set |-> TRUE, val |-> "a=1"]
    /\ req["a"].query.expand = [set |-> TRUE, val |-> <<"author", ",", "tags">>]
    /\ req["a"].query.fields = [set |-> TRUE, val |-> <<"id">>]

\* The position of the last option of optList that is one of names, 0 when there
\* is none.
LastIndex(optList, names) ==
    LET at == {i \in DOMAIN optList : optList[i].opt \in names}
    IN IF at = {} THEN 0 ELSE CHOOSE i \in at : \A j \in at : j <= i

\* The value the last option named name of optList gives, read by arg; none
\* when no option of optList has that name.
LastValue(optList, name, arg(_), none) ==
    LET i == LastIndex(optList, {name})
    IN IF i = 0 THEN none ELSE arg(optList[i])

\* The transport handle the last WithHTTPClient or WithTimeout of the call
\* installs: the caller's handle, or a new one with that timeout.
LastTransport ==
    LET i == LastIndex(call.opts, {"WithHTTPClient", "WithTimeout"})
    IN IF i = 0
       THEN HTTPClientOf("NewClient", 0)
       ELSE IF call.opts[i].opt = "WithHTTPClient"
            THEN call.opts[i].httpClient
            ELSE HTTPClientOf("WithTimeout", call.opts[i].timeout)

\* C23: options are applied in the order given and the last writer wins per
\* option: the client holds the transport handle of the last WithHTTPClient or
\* WithTimeout and the user agent of the last WithUserAgent whatever comes
\* between them, and each field of the options struct an operation builds is
\* the value of the last option that sets it (its default when none does).
C23_LastWriterWins ==
    /\ client.made =>
        /\ client.HTTPClient = LastTransport
        /\ client.userAgent =
               LastValue(call.opts, "WithUserAgent", LAMBDA o : o.userAgent,
                         "pocketbase-go/1.0")
    /\ (built.done /\ call.op = "GetAllRecords") =>
        /\ built.options.Page = LastValue(call.listOpts, "WithPage", LAMBDA o : o.n, 1)
        /\ built.options.PerPage =
               LastValue(call.listOpts, "WithPerPage", LAMBDA o : o.n, 30)
        /\ built.options.Sort = LastValue(call.listOpts, "WithSort", LAMBDA o : o.s, "")
        /\ built.options.Filter =
               LastValue(call.listOpts, "WithFilter", LAMBDA o : o.s, "")
        /\ built.options.Expand =
               LastValue(call.listOpts, "WithListExpand", LAMBDA o : o.fields, <<>>)
        /\ built.options.Fields =
               LastValue(call.listOpts, "WithListFields", LAMBDA o : o.fields, <<>>)
    /\ (built.done /\ call.op \in JsonRecordOps) =>
        /\ built.options.Expand =
               LastValue(call.queryOpts, "WithExpand", LAMBDA o : o.fields, <<>>)
        /\ built.options.Fields =
               LastValue(call.queryOpts, "WithFields", LAMBDA o : o.fields, <<>>)
    /\ (built.done /\ call.op \in FileOps) =>
        /\ built.options.Data =
               LastValue(call.fileUploads, "WithFormData", LAMBDA o : o.data, NilData)
        /\ Len(built.options.Uploads) = Len(Directives)
        /\ \A i \in DOMAIN Directives :
               LET mods == Directives[i].mods
                   k == LastIndex([j \in DOMAIN mods |-> [opt |-> mods[j].mod]], {"WithDelete"})
               IN built.options.Uploads[i].Delete =
                      IF k = 0 THEN <<>> ELSE mods[k].names

\* A client made with a user agent between two transport options keeps the
\* second handle and the user agent, and its GetAllRecords, given two sorts
\* around a page size, asks for the second sort.
C23_Witness ==
    /\ client.made
    /\ built.done
    /\ wire = <<built.req>>
    /\ call.op = "GetAllRecords"
    /\ call.opts = MixedOptions
    /\ client.HTTPClient = HTTPClientOf("WithTimeout", 10)
    /\ client.userAgent = "MyApp/1.0"
    /\ call.listOpts = <<OptString("WithSort", "-created"), OptInt("WithPerPage", 50),
                         OptString("WithSort", "title")>>
    /\ built.options.Sort = "title"
    /\ built.options.PerPage = 50
    /\ built.req.query.sort = [set |-> TRUE, val |-> "title"]

\* A request of goroutine g is in flight.
InFlight(g) == tpc[g] = "Do"

\* Goroutine g holds tokenMu, as writer or as reader.
Holds(g) == tokenMu.writer = g \/ g \in tokenMu.readers

\* C24: a goroutine whose request is in flight holds no lock on the token;
\* whenever a goroutine is inside SetToken or GetToken some goroutine inside
\* one of them can take its next step; and every SetToken and GetToken that
\* was called returns, however many requests are in flight and whether or not
\* they are ever answered.
C24_LockNeverAcrossRequest ==
    /\ [](\A g \in Goroutines : InFlight(g) => ~Holds(g))
    /\ []((\E g \in Goroutines : InSetToken(g) \/ InGetToken(g))
            => ENABLED (\E g \in Goroutines : TokenStep(g)))
    /\ \A g \in Goroutines :
           (InSetToken(g) \/ InGetToken(g)) ~> (tpc[g] \in {"idle", "ret"})

\* A request sent without a token is in flight and unanswered, a SetToken("t1")
\* has returned, a GetToken returns t1, and the next SetToken is at the lock.
C24_Witness ==
    /\ InFlight("g1")
    /\ tpc["g2"] = "Lock"
    /\ targ["g2"] = "t2"
    /\ lastSet = "t1"
    /\ tpc["g3"] = "ret"
    /\ tret["g3"] = Words("t1")

\* C25: every step of GetAllRecords that sends a page request, the first or a
\* later one, gives it the Authorization header of the token stored at that
\* step, whatever header the first page of the traversal was sent with.
C25_TokenReadPerPage ==
    [][\A p \in Callers :
        (op'[p] = "GetAllRecords" /\ Len(sent'[p]) > Len(sent[p]))
            => /\ req'[p].auth = AuthHeader(token)
               /\ firstAuth'[p] = IF sent[p] = <<>> THEN <<req'[p].auth>> ELSE firstAuth[p]]_vars

\* Page 1 of a traversal went out with t1, another caller's authentication
\* then stored t2, and page 2 of the same traversal went out with t2.
C25_Witness ==
    /\ op["a"] = "GetAllRecords"
    /\ pc["a"] = "loop"
    /\ sent["a"] = <<1, 2>>
    /\ firstAuth["a"] = <<AuthHeader("t1")>>
    /\ req["a"].auth = AuthHeader("t2")
    /\ op["b"] = "AuthenticateWithPassword"
    /\ pc["b"] = "done"
    /\ out["b"].err.kind = "none"
    /\ token = "t2"

\* Caller p's authentication has stored its token and holds its result.
AuthSucceeded(p) == op[p] \in AuthOps /\ pc[p] = "done" /\ out[p].err.kind = "none"

\* C26: while two callers each run an authentication, the step in which one
\* stores leaves the stored token equal to the token of its own response and
\* returns the record of its own response, the step in which one fails leaves
\* the stored token as it is, and neither touches the other call or its result;
\* and once both have succeeded the stored token is that of one of the two
\* responses.
C26_ConcurrentAuthentications ==
    /\ [][\A p, q \in Callers :
            (p # q /\ op[p] \in AuthOps /\ op[q] \in AuthOps) =>
                /\ (pc[p] = "store" /\ pc'[p] = "done")
                      => /\ token' = StrField(last[p].body.f["token"])
                         /\ out'[p].val.Record = MapField(last[p].body.f["record"])
                         /\ out'[q] = out[q]
                         /\ pc'[q] = pc[q]
                /\ (pc[p] = "wait" /\ pc'[p] = "done")
                      => /\ token' = token
                         /\ out'[q] = out[q]
                         /\ pc'[q] = pc[q]]_vars
    /\ [](\A p, q \in Callers :
            (p # q /\ AuthSucceeded(p) /\ AuthSucceeded(q))
                => token \in {StrField(last[p].body.f["token"]),
                              StrField(last[q].body.f["token"])})

\* Both callers authenticated at once and both succeeded, a as admin with t1
\* and b as user with t2; each holds its own record, and t1 is stored: a's
\* store came last.
C26_Witness ==
    /\ AuthSucceeded("a")
    /\ AuthSucceeded("b")
    /\ req["a"].auth = AuthHeader("")
    /\ req["b"].auth = AuthHeader("")
    /\ last["a"].body = AuthBody("t1")
    /\ last["b"].body = AuthBody("t2")
    /\ out["a"].val.Record = "admin"
    /\ out["b"].val.Record = "user"
    /\ token = "t1"

\* Caller p runs the loop of GetAllRecords: no page above 1 was asked for.
InLoop(p) == op[p] = "GetAllRecords" /\ given[p].Page <= 1

\* Every response of the call so far reported at most m total pages.
ReportedAtMost(resps, m) == \A i \in 1..Len(resps) : resps[i].TotalPages <= m

\* C27: after each page that was fetched without error the loop stops exactly
\* when the page number has reached the total-page count of that page's own
\* response, and asks for the next page otherwise, whatever earlier responses
\* reported; so a call whose responses all reported at most M total pages has
\* sent at most max(1, M) requests, and a call whose first response reported 0
\* sent one request and returns the items of that response.
C27_StopsOnLatestTotalPages ==
    /\ [][\A p \in Callers :
            (InLoop(p) /\ pc[p] = "loop" /\ Len(got'[p]) > Len(got[p])) =>
                LET resp == got'[p][Len(got'[p])]
                IN IF page[p] >= resp.TotalPages
                   THEN /\ pc'[p] = "done"
                        /\ sent'[p] = sent[p]
                        /\ out'[p].err = NoErr
                   ELSE /\ pc'[p] = "loop"
                        /\ sent'[p] = Append(sent[p], page[p] + 1)
                        /\ req'[p].page = page[p] + 1]_vars
    /\ [](\A p \in Callers : \A m \in 0..MaxPages :
            (InLoop(p) /\ ReportedAtMost(got[p], m) /\ (pc[p] = "done" \/ got[p] # <<>>))
                => Len(sent[p]) <= (IF m >= 1 THEN m ELSE 1))
    /\ [](\A p \in Callers :
            (LoopDone(p) /\ got[p][1].TotalPages = 0)
                => /\ sent[p] = <<1>>
                   /\ out[p].val.Items = got[p][1].Items)

\* The answer to page 1 reported 0 total pages and carried two items: the call
\* sent that one request and returns the two items.
C27_Witness ==
    /\ LoopDone("a")
    /\ Len(got["a"]) = 1
    /\ got["a"][1].TotalPages = 0
    /\ got["a"][1].Items = <<11, 12>>
    /\ sent["a"] = <<1>>
    /\ out["a"].val.Items = <<11, 12>>

\* The answer to p's authentication is a 2xx response without a token field.
AnsweredWithoutToken(r) == r.kind = "http" /\ Is2xx(r.code) /\ r.body = AuthBodyNoToken

\* C28: an authentication answered by a 2xx response without a token field
\* goes on to the store and succeeds, returning the response's record; its
\* store leaves the empty string as the stored token, whatever was stored; and
\* every request built while the stored token is empty has no Authorization
\* header.
C28_MissingTokenClearsStore ==
    [][\A p \in Callers :
        /\ (op[p] \in AuthOps /\ pc[p] = "wait" /\ pc'[p] # "wait"
                /\ AnsweredWithoutToken(last'[p]))
              => pc'[p] = "store"
        /\ (pc[p] = "store" /\ pc'[p] = "done" /\ AnsweredWithoutToken(last[p]))
              => /\ token' = ""
                 /\ out'[p].err = NoErr
                 /\ out'[p].val.Record = "user"
        /\ (token = "" /\ Len(sent'[p]) > Len(sent[p]))
              => req'[p].auth = [has |-> FALSE, val |-> ""]]_vars

\* b authenticated with t1 stored and was answered without a token: it
\* succeeded, the stored token is empty, and a's GetRecord is out without an
\* Authorization header.
C28_Witness ==
    /\ AuthSucceeded("b")
    /\ req["b"].auth = AuthHeader("t1")
    /\ AnsweredWithoutToken(last["b"])
    /\ out["b"].val.Record = "user"
    /\ token = ""
    /\ op["a"] = "GetRecord"
    /\ pc["a"] = "wait"
    /\ ~req["a"].auth.has

\* A body the decoder accepts as an error payload: JSON null, or a JSON object
\* whose status, message and data, where present and not null, are a number, a
\* string and an object.
DecodesAsError(body) ==
    /\ body.syn = "ok"
    /\ \/ body.top = "null"
       \/ /\ body.top = "obj"
          /\ body.f["status"].t \in {"absent", "null", "num"}
          /\ body.f["message"].t \in {"absent", "null", "str"}
          /\ body.f["data"].t \in {"absent", "null", "obj"}

\* The status such a body states: its status number, 0 when it has none.
BodyStatus(body) == IF body.f["status"].t = "num" THEN body.f["status"].n ELSE 0

\* C29: for a response outside [200,300) whose body decodes, on either path,
\* the API error has the status, the message and the data of the body (zero,
\* empty and nil for those the body lacks) whatever the status code of the
\* response, and IsNotFound, IsUnauthorized, IsForbidden and IsBadRequest of
\* that error answer for the body's status.
C29_ErrorFollowsBody ==
    (HandledNon2xx /\ DecodesAsError(input.r.body))
        => LET body == input.r.body
               err == output.res.err
           IN /\ err.kind = "api"
              /\ err.Status = BodyStatus(body)
              /\ err.Message = IF body.f["message"].t = "str"
                               THEN body.f["message"].s ELSE ""
              /\ err.Data = IF body.f["data"].t = "obj" THEN body.f["data"].s ELSE NilRec
              /\ IsNotFound(err) <=> BodyStatus(body) = 404
              /\ IsUnauthorized(err) <=> BodyStatus(body) = 401
              /\ IsForbidden(err) <=> BodyStatus(body) = 403
              /\ IsBadRequest(err) <=> BodyStatus(body) = 400

\* A 404 response whose body states the status 400 became an API error that is
\* a bad request and is not "not found".
C29_Witness ==
    /\ HandledNon2xx
    /\ ~input.multipart
    /\ input.r.code = 404
    /\ input.r.body = ErrBody(400)
    /\ output.res.err = APIError(400, "server message", "detail")
    /\ IsBadRequest(output.res.err)
    /\ ~IsNotFound(output.res.err)

\* C30: the step that sends an authentication request builds it as any other
\* request is built, with the Authorization header of the token stored at that
\* step, and leaves the token stored; the token is still stored when the
\* answer has been handled, and only the store after a success replaces it.
C30_AuthRequestCarriesOldToken ==
    [][\A p \in Callers :
        /\ (pc[p] = "idle" /\ op'[p] \in AuthOps)
              => /\ pc'[p] = "wait"
                 /\ req'[p].method = "POST"
                 /\ req'[p].auth = AuthHeader(token)
                 /\ token' = token
        /\ (op[p] \in AuthOps /\ pc[p] = "wait" /\ pc'[p] # "wait")
              => token' = token
        /\ (op[p] \in AuthOps /\ pc[p] = "store" /\ pc'[p] # "store" /\ token' # token)
              => token' = StrField(last[p].body.f["token"])]_vars

\* b's authentication went out with t1 and was refused with a 401; a's
\* superuser authentication is out with t1 in its Authorization header, and t1
\* is still stored.
C30_Witness ==
    /\ op["a"] = "AuthenticateAsSuperuser"
    /\ pc["a"] = "wait"
    /\ req["a"].auth = [has |-> TRUE, val |-> "t1"]
    /\ token = "t1"
    /\ op["b"] = "AuthenticateWithPassword"
    /\ pc["b"] = "done"
    /\ req["b"].auth = [has |-> TRUE, val |-> "t1"]
    /\ last["b"] = Http(401, ErrBody(401))
    /\ out["b"].err.kind = "api"

=============================================================================
